---- MODULE Spec2Model ----
(***************************************************************************)
(* Resumable GPU provisioning tool (hsucs2712/CG).                          *)
(*                                                                         *)
(* The repository holds four copies of the provisioning sequencer:         *)
(*   "client"      src/client/install_package.py                           *)
(*   "test_vision" src/test_vision/install_package.py                      *)
(*   "client_v1"   src/test_vision/client_v1.0/main.py (+ linux_install,   *)
(*                 win_install, gpu_detect, run_cmd, list)                 *)
(*   "testVision"  src/test_vision/testVision.py                           *)
(* Each behaviour of Spec fixes one copy, one operating system and one     *)
(* machine, and follows runs of that copy across reboots.                  *)
(*                                                                         *)
(* A subprocess has one of three outcomes: it exits with status zero, it   *)
(* exits with a non-zero status, or it cannot be launched at all.          *)
(* File removal (os.remove of a file the tool wrote itself) is taken to    *)
(* succeed; file creation and systemctl calls may fail.                    *)
(***************************************************************************)
EXTENDS Integers, Sequences, FiniteSets, TLC

VARIABLES
    program,            \* which copy of the sequencer is installed
    os_type,            \* platform.system().lower()
    installed_pm,       \* package manager present on the machine
    gpu,                \* what the hardware listing shows
    nvidia_smi,         \* outcome of running nvidia-smi now
    nvcc,               \* outcome of running nvcc --version now
    driver_pkg,         \* a driver package install exited with status zero
    clean_start,        \* no marker file was on the machine at the start
    tools,              \* every required base tool is installed
    store,              \* resume marker store: files and unit state
    pc,                 \* position of the running process
    via_hook,           \* the process was started by the autostart hook
    is_auto_continue,   \* main(): marker found at startup
    package_manager,    \* SystemManager.package_manager of this run
    gpu_info,           \* result of check_gpu() of this run
    log,                \* what this run has done so far, in order
    outcome,            \* how the run ended
    runs,               \* number of runs started
    fb,                 \* driver fallback installs under study
    tl,                 \* InstallBaseTools under study
    cl,                 \* capability classifier under study
    rc,                 \* command runner under study
    ms,                 \* resume marker store under study
    tb,                 \* capability table under study
    bd,                 \* stress tool build under study
    pb,                 \* hardware probe and build call under study
    dp                  \* package-manager dispatch under study

vars == <<program, os_type, installed_pm, gpu, nvidia_smi, nvcc, driver_pkg,
          clean_start, tools, store, pc, via_hook, is_auto_continue, package_manager, gpu_info,
          log, outcome, runs, fb, tl, cl, rc, ms, tb, bd, pb, dp>>

host == <<program, os_type, installed_pm, gpu, nvidia_smi, nvcc, driver_pkg,
          clean_start>>
machine == <<host, tools>>
studies == <<fb, tl, cl, rc, ms, tb, bd, pb, dp>>

\* Bound on the number of runs followed in one behaviour.
MaxRuns == 3

Programs == {"client", "test_vision", "client_v1", "testVision"}
Outcomes == {"zero", "nonzero", "nolaunch"}
NoStudy == [on |-> FALSE]

(***************************************************************************)
(* Privileged Command Runner                                               *)
(***************************************************************************)

\* SystemManager._run_cmd of the client copy: subprocess.run(check=True).
_run_cmd(o) == o = "zero"

\* run_cmd of the other copies: subprocess.run(check=check); a non-zero exit
\* raises CalledProcessError only when check is true.
run_cmd(check, o) ==
    IF o = "nolaunch" THEN FALSE
    ELSE IF o = "nonzero" THEN ~check
    ELSE TRUE

\* The runner a copy uses for a call written with the given check flag.
Runner(p, check, o) == IF p = "client" THEN _run_cmd(o) ELSE run_cmd(check, o)

(***************************************************************************)
(* Resume Marker Store                                                     *)
(***************************************************************************)

EmptyStore == [service |-> FALSE, script |-> FALSE, enabled |-> FALSE,
               flag |-> FALSE, bat |-> FALSE]

LinuxFailures == {"none", "script", "service", "reload", "enable"}
WindowsFailures == {"none", "flag", "bat"}

\* create_auto_start_linux: write the relaunch script, write the unit file,
\* daemon-reload, enable; `fail` names the first sub-step that fails.
create_auto_start_linux(s, fail) ==
    IF fail = "script" THEN [store |-> s, ok |-> FALSE]
    ELSE IF fail = "service"
         THEN [store |-> [s EXCEPT !.script = TRUE], ok |-> FALSE]
    ELSE IF fail \in {"reload", "enable"}
         THEN [store |-> [s EXCEPT !.script = TRUE, !.service = TRUE],
               ok |-> FALSE]
    ELSE [store |-> [s EXCEPT !.script = TRUE, !.service = TRUE,
                              !.enabled = TRUE],
          ok |-> TRUE]

\* create_auto_start_windows: write the flag file, then the startup script.
create_auto_start_windows(s, fail) ==
    IF fail = "flag" THEN [store |-> s, ok |-> FALSE]
    ELSE IF fail = "bat"
         THEN [store |-> [s EXCEPT !.flag = TRUE], ok |-> FALSE]
    ELSE [store |-> [s EXCEPT !.flag = TRUE, !.bat = TRUE], ok |-> TRUE]

\* remove_auto_start_linux: disable and stop the unit, delete both files.
remove_auto_start_linux(s) ==
    [s EXCEPT !.service = FALSE, !.script = FALSE, !.enabled = FALSE]

\* remove_auto_start_windows: delete the startup script and the flag file.
remove_auto_start_windows(s) == [s EXCEPT !.bat = FALSE, !.flag = FALSE]

\* Section 6 of the design: on Linux either file means "resume pending",
\* elsewhere the flag file does.
MarkerExists == store.service \/ store.script \/ store.flag

\* The OS will relaunch something at the next boot.
HookArmed ==
    IF os_type = "linux" THEN store.service /\ store.script /\ store.enabled
    ELSE store.bat

(***************************************************************************)
(* Probes                                                                  *)
(***************************************************************************)

\* check_nvidia_driver()['installed'] in the current machine state; every
\* copy but the client one calls the runner with check=False.
check_nvidia_driver(p, o) == Runner(p, FALSE, o)

\* run_cmd(['nvcc', '--version'], check=False) as a toolkit probe.
check_nvcc(p, o) == Runner(p, FALSE, o)

\* check_gpu(): has_gpu and whether any device name (hence any compute
\* capability) was extracted from the listing.
check_gpu(g) == [has_gpu |-> g # "none", named |-> g = "named"]

NoGpuInfo == [has_gpu |-> FALSE, named |-> FALSE]

(***************************************************************************)
(* Driver install with its ordered fallback list                           *)
(***************************************************************************)

drivers == <<"nvidia-driver-550", "nvidia-driver-545", "nvidia-driver-535">>

\* for driver in drivers: success = run(...); if success: break
\* `outs[i]` is the outcome of installing drivers[i]; the result is the
\* list of candidates tried and the value of `success` after the loop.
RECURSIVE fallback_loop(_, _, _, _, _)
fallback_loop(p, check, outs, i, tried) ==
    IF i > Len(drivers) THEN [tried |-> tried, success |-> FALSE]
    ELSE IF Runner(p, check, outs[i])
         THEN [tried |-> Append(tried, drivers[i]), success |-> TRUE]
         ELSE fallback_loop(p, check, outs, i + 1, Append(tried, drivers[i]))


\* install_nvidia_driver() of the client and test_vision copies, apt branch:
\* ubuntu-drivers autoinstall first, the fallback list when it fails.
\* `pkg` tells whether some install command really exited with status zero.
install_nvidia_driver_apt(p, auto, outs) ==
    IF Runner(p, FALSE, auto)
    THEN [auto |-> TRUE, tried |-> <<>>, success |-> TRUE, pkg |-> auto = "zero"]
    ELSE LET r == fallback_loop(p, FALSE, outs, 1, <<>>)
         IN  [auto |-> TRUE, tried |-> r.tried, success |-> r.success,
              pkg |-> \E i \in 1..Len(r.tried) : outs[i] = "zero"]

\* install_nvidia_driver() of the same copies, dnf branch: one install call.
install_nvidia_driver_dnf(p, o) ==
    [auto |-> FALSE, tried |-> <<"nvidia-driver">>,
     success |-> Runner(p, FALSE, o), pkg |-> o = "zero"]

\* install_nvidia_driver() when package_manager is neither apt-get nor dnf.
install_nvidia_driver_none ==
    [auto |-> FALSE, tried |-> <<>>, success |-> FALSE, pkg |-> FALSE]

\* SystemManager.install_nvidia_driver_apt of testVision.py, driver part:
\* `ubuntu-drivers devices` decides between autoinstall and the list.
testVision_driver_apt(devices, recommended, auto, outs) ==
    IF run_cmd(FALSE, devices) /\ recommended
    THEN [auto |-> TRUE, tried |-> <<>>, success |-> run_cmd(FALSE, auto),
          pkg |-> auto = "zero"]
    ELSE LET r == fallback_loop("testVision", FALSE, outs, 1, <<>>)
         IN  [auto |-> FALSE, tried |-> r.tried, success |-> r.success,
              pkg |-> \E i \in 1..Len(r.tried) : outs[i] = "zero"]

CandidateOutcomes == [1..Len(drivers) -> Outcomes]

(***************************************************************************)
(* Process life cycle                                                      *)
(***************************************************************************)

Has(e) == \E i \in 1..Len(log) : log[i] = e

\* Position of the first occurrence of e in the log, 0 when absent.
First(e) == IF Has(e) THEN CHOOSE i \in 1..Len(log) :
                             log[i] = e /\ \A j \in 1..(i - 1) : log[j] # e
            ELSE 0

Goto(p) == pc' = p /\ outcome' = outcome
End(o) == pc' = "done" /\ outcome' = o
Did(es) == log' = log \o es

\* install_system_tools(): when it ends the tools are all there, or the
\* machine is as it was (the install failed, or nothing was found missing).
install_system_tools == tools' \in {tools, TRUE}

\* A process of the installed copy starts.
Begin(hook) ==
    /\ runs < MaxRuns
    /\ pc' = "start"
    /\ via_hook' = hook
    /\ is_auto_continue' = FALSE
    /\ package_manager' = "none"
    /\ gpu_info' = NoGpuInfo
    /\ log' = <<>>
    /\ outcome' = "running"
    /\ runs' = runs + 1

\* The operator starts the tool by hand.
ManualRun ==
    /\ pc = "idle"
    /\ Begin(FALSE)
    /\ UNCHANGED <<machine, store, studies>>

\* A relaunch script whose last lines delete the script only.
HookCleanup_script_only(s) ==
    IF os_type = "linux" THEN [s EXCEPT !.script = FALSE]
    ELSE [s EXCEPT !.bat = FALSE]

\* What the relaunch script does after the program it started has ended:
\* rm -f of both files on Linux, del "%~f0" on Windows.
HookCleanup(s) ==
    IF os_type = "linux" THEN [s EXCEPT !.script = FALSE, !.service = FALSE]
    ELSE [s EXCEPT !.bat = FALSE]

\* The file each copy's main() lives in.
entry_point(p) ==
    CASE p = "client" -> "client/install_package.py"
      [] p = "test_vision" -> "test_vision/install_package.py"
      [] p = "testVision" -> "test_vision/testVision.py"
      [] p = "client_v1" -> "client_v1.0/main.py"

\* SCRIPT_PATH = os.path.abspath(__file__), evaluated in the module that
\* defines it: the entry-point itself, except in client_v1 where it is
\* defined in list.py and imported from there.
SCRIPT_PATH(p) == IF p = "client_v1" THEN "client_v1.0/list.py" ELSE entry_point(p)

\* script_content of create_auto_start: the directory it changes to, the
\* interpreter it names and the file it runs.
script_content(p, os) ==
    [cd |-> <<"dirname", SCRIPT_PATH(p)>>,
     interpreter |-> IF os = "linux" /\ p \in {"client_v1", "testVision"}
                     THEN "python3" ELSE "sys.executable",
     target |-> SCRIPT_PATH(p)]

\* The program the relaunch script names is the sequencer itself, except in
\* client_v1 where SCRIPT_PATH is the path of list.py.
HookRunsSequencer == script_content(program, os_type).target = entry_point(program)

\* The machine restarts after a reboot was issued.
Boot ==
    /\ pc = "done" /\ outcome = "Reboot"
    /\ runs < MaxRuns
    /\ nvidia_smi' \in (IF driver_pkg THEN {"zero", "nonzero"} ELSE {nvidia_smi})
    /\ IF HookArmed /\ HookRunsSequencer
       THEN Begin(TRUE) /\ UNCHANGED store
       ELSE /\ store' = (IF HookArmed THEN HookCleanup(store) ELSE store)
            /\ pc' = "idle"
            /\ UNCHANGED <<via_hook, is_auto_continue, package_manager,
                           gpu_info, log, outcome, runs>>
    /\ UNCHANGED <<tools, program, os_type, installed_pm, gpu, nvcc, driver_pkg,
                   clean_start, studies>>

\* The process has ended without a reboot; a relaunch script that started it
\* goes on to its clean-up lines.
Exit ==
    /\ pc = "done" /\ outcome # "Reboot"
    /\ store' = (IF via_hook THEN HookCleanup(store) ELSE store)
    /\ pc' = "idle"
    /\ UNCHANGED <<machine, via_hook, is_auto_continue, package_manager,
                   gpu_info, log, outcome, runs, studies>>

\* run_cmd(['reboot']) / shutdown /r: the reboot is issued and main returns.
IssueReboot ==
    /\ pc = "reboot"
    /\ Did(<<"reboot">>)
    /\ End("Reboot")
    /\ UNCHANGED <<machine, store, via_hook, is_auto_continue,
                   package_manager, gpu_info, runs, studies>>

\* remove_auto_start_linux() or remove_auto_start_windows() by os_type.
remove_auto_start(s) ==
    IF os_type = "linux" THEN remove_auto_start_linux(s)
    ELSE remove_auto_start_windows(s)

\* Effect of a toolkit install command with outcome o on the nvcc probe.
NvccAfter(o) == IF o = "zero" THEN {"zero", nvcc} ELSE {nvcc}

(***************************************************************************)
(* src/client/install_package.py, main()                                   *)
(***************************************************************************)

client_Start ==
    /\ pc = "start" /\ program = "client"
    /\ package_manager' = installed_pm
    /\ is_auto_continue' = (store.service \/ store.flag)
    /\ Goto("c_phase0")
    /\ UNCHANGED <<machine, store, via_hook, gpu_info, log, runs, studies>>

\* Phase 0: install Chocolatey on Windows when no package manager is found.
client_Phase0 ==
    /\ pc = "c_phase0"
    /\ IF os_type = "windows" /\ package_manager = "none" /\ ~is_auto_continue
       THEN \E ps \in Outcomes :
              IF ps = "zero"
              THEN /\ installed_pm' \in {"choco", "none"}
                   /\ Did(<<"choco_install">>)
                   /\ Goto("c_choco_autostart")
              ELSE /\ Did(<<"choco_failed">>)
                   /\ End("Failed")
                   /\ UNCHANGED installed_pm
       ELSE Goto("c_phase1") /\ UNCHANGED <<installed_pm, log>>
    /\ UNCHANGED <<tools, program, os_type, gpu, nvidia_smi, nvcc, driver_pkg,
                   clean_start, store, via_hook, is_auto_continue, package_manager, gpu_info,
                   runs, studies>>

\* install_chocolatey(): create_auto_start_windows(), result not looked at.
client_ChocoAutostart ==
    /\ pc = "c_choco_autostart"
    /\ \E f \in WindowsFailures :
         LET r == create_auto_start_windows(store, f)
         IN  /\ store' = r.store
             /\ Did(<<IF r.ok THEN "marker_ok" ELSE "marker_fail">>)
    /\ Goto("reboot")
    /\ UNCHANGED <<machine, via_hook, is_auto_continue, package_manager,
                   gpu_info, runs, studies>>

\* Phases 1 and 2: base tools and Python packages, first run only.
client_Phase1 ==
    /\ pc = "c_phase1"
    /\ IF ~is_auto_continue
       THEN Did(<<"base_tools", "py_packages">>) /\ install_system_tools
       ELSE UNCHANGED <<log, tools>>
    /\ Goto("c_check_gpu")
    /\ UNCHANGED <<host, store, via_hook, is_auto_continue,
                   package_manager, gpu_info, runs, studies>>

client_CheckGpu ==
    /\ pc = "c_check_gpu"
    /\ gpu_info' = check_gpu(gpu)
    /\ IF gpu_info'.has_gpu
       THEN Did(<<"probe_gpu">>) /\ Goto("c_check_driver") /\ UNCHANGED store
       ELSE /\ IF is_auto_continue
               THEN store' = remove_auto_start(store)
                    /\ Did(<<"probe_gpu", "marker_remove">>)
               ELSE UNCHANGED store /\ Did(<<"probe_gpu">>)
            /\ Goto("c_report")
    /\ UNCHANGED <<machine, via_hook, is_auto_continue, package_manager,
                   runs, studies>>

\* A sequencer whose resumed run installs the driver whatever the probe says.
client_driver_branch_reinstall(installed, auto, os) ==
    IF auto /\ os = "linux" THEN "c_install_driver"
    ELSE IF ~installed
         THEN IF os = "linux" THEN "c_install_driver" ELSE "c_report"
         ELSE "c_cuda"

\* The branch main() takes after check_nvidia_driver().
client_driver_branch(installed, auto, os) ==
    IF ~installed
    THEN IF ~auto
         THEN IF os = "linux" THEN "c_install_driver" ELSE "c_report"
         ELSE "c_loop_break"
    ELSE "c_cuda"

client_CheckDriver ==
    /\ pc = "c_check_driver"
    /\ LET installed == check_nvidia_driver(program, nvidia_smi)
       IN  /\ Did(<<IF installed THEN "probe_driver_yes" ELSE "probe_driver_no">>)
           /\ Goto(client_driver_branch(installed, is_auto_continue, os_type))
    /\ UNCHANGED <<machine, store, via_hook, is_auto_continue,
                   package_manager, gpu_info, runs, studies>>

\* Driver still absent in a resumed run: remove the marker and stop.
client_LoopBreak ==
    /\ pc = "c_loop_break"
    /\ store' = remove_auto_start(store)
    /\ Did(<<"marker_remove">>)
    /\ End("Failed")
    /\ UNCHANGED <<machine, via_hook, is_auto_continue, package_manager,
                   gpu_info, runs, studies>>

\* A driver step that starts over whenever the install has failed.
client_InstallDriver_retry ==
    /\ pc = "c_install_driver"
    /\ \E auto \in Outcomes, outs \in CandidateOutcomes :
         LET r == IF package_manager = "apt-get"
                  THEN install_nvidia_driver_apt(program, auto, outs)
                  ELSE IF package_manager = "dnf"
                       THEN install_nvidia_driver_dnf(program, auto)
                       ELSE install_nvidia_driver_none
         IN  /\ driver_pkg' = (driver_pkg \/ r.pkg)
             /\ Did(<<"driver_install",
                      IF r.success THEN "driver_ok" ELSE "driver_failed">>)
             /\ Goto(IF r.success THEN "c_autostart" ELSE "c_install_driver")
    /\ UNCHANGED <<tools, program, os_type, installed_pm, gpu, nvidia_smi, nvcc,
                   clean_start, store, via_hook, is_auto_continue,
                   package_manager, gpu_info, runs, studies>>

\* install_nvidia_driver(), the package-manager part.
client_InstallDriver ==
    /\ pc = "c_install_driver"
    /\ \E auto \in Outcomes, outs \in CandidateOutcomes :
         LET r == IF package_manager = "apt-get"
                  THEN install_nvidia_driver_apt(program, auto, outs)
                  ELSE IF package_manager = "dnf"
                       THEN install_nvidia_driver_dnf(program, auto)
                       ELSE install_nvidia_driver_none
         IN  /\ driver_pkg' = (driver_pkg \/ r.pkg)
             /\ Did(<<"driver_install",
                      IF r.success THEN "driver_ok" ELSE "driver_failed">>)
             /\ Goto(IF r.success THEN "c_autostart" ELSE "c_report")
    /\ UNCHANGED <<tools, program, os_type, installed_pm, gpu, nvidia_smi, nvcc,
                   clean_start, store, via_hook, is_auto_continue,
                   package_manager, gpu_info, runs, studies>>

\* install_nvidia_driver(): reboot only if create_auto_start_linux() is true;
\* it returns needs_reboot=True either way and main() returns.
client_Autostart ==
    /\ pc = "c_autostart"
    /\ \E f \in LinuxFailures :
         LET r == create_auto_start_linux(store, f)
         IN  /\ store' = r.store
             /\ IF r.ok
                THEN Did(<<"marker_ok">>) /\ Goto("reboot")
                ELSE Did(<<"marker_fail">>) /\ End("Failed")
    /\ UNCHANGED <<machine, via_hook, is_auto_continue, package_manager,
                   gpu_info, runs, studies>>

\* Toolkit step: probe nvcc, install_cuda() when absent.  install_cuda()
\* removes the marker before it installs anything.
client_Cuda ==
    /\ pc = "c_cuda"
    /\ IF ~check_nvcc(program, nvcc)
       THEN /\ store' = remove_auto_start(store)
            /\ \E o \in Outcomes : nvcc' \in NvccAfter(o)
            /\ Did(<<"probe_toolkit_no", "marker_remove", "toolkit_install">>)
       ELSE /\ IF is_auto_continue
               THEN store' = remove_auto_start(store)
                    /\ Did(<<"probe_toolkit_yes", "marker_remove">>)
               ELSE UNCHANGED store /\ Did(<<"probe_toolkit_yes">>)
            /\ UNCHANGED nvcc
    /\ Goto("c_report")
    /\ UNCHANGED <<tools, program, os_type, installed_pm, gpu, nvidia_smi,
                   driver_pkg, clean_start, via_hook, is_auto_continue,
                   package_manager, gpu_info, runs, studies>>

\* The final report.
client_Report ==
    /\ pc = "c_report"
    /\ End("Complete")
    /\ UNCHANGED <<machine, store, via_hook, is_auto_continue,
                   package_manager, gpu_info, log, runs, studies>>

client_main ==
    \/ client_Start \/ client_Phase0 \/ client_ChocoAutostart
    \/ client_Phase1 \/ client_CheckGpu \/ client_CheckDriver
    \/ client_LoopBreak \/ client_InstallDriver \/ client_Autostart
    \/ client_Cuda \/ client_Report

(***************************************************************************)
(* src/test_vision/install_package.py, main()                              *)
(***************************************************************************)

test_vision_Start ==
    /\ pc = "start" /\ program = "test_vision"
    /\ is_auto_continue' = store.service
    /\ package_manager' = installed_pm
    /\ Goto(IF store.service THEN "tv_phase4" ELSE "tv_phase1")
    /\ UNCHANGED <<machine, store, via_hook, gpu_info, log, runs, studies>>

\* Phases 1 and 2: base tools and Python packages.
test_vision_Phase1 ==
    /\ pc = "tv_phase1"
    /\ Did(<<"base_tools", "py_packages">>)
    /\ install_system_tools
    /\ Goto("tv_check_gpu")
    /\ UNCHANGED <<host, store, via_hook, is_auto_continue,
                   package_manager, gpu_info, runs, studies>>

\* Phase 3: check_gpu(), then check_nvidia_driver() when a GPU is present.
test_vision_CheckGpu ==
    /\ pc = "tv_check_gpu"
    /\ gpu_info' = check_gpu(gpu)
    /\ LET installed == check_nvidia_driver(program, nvidia_smi)
       IN  IF ~gpu_info'.has_gpu
           THEN Did(<<"probe_gpu">>) /\ Goto("tv_phase5")
           ELSE IF installed
                THEN Did(<<"probe_gpu", "probe_driver_yes">>) /\ Goto("tv_phase5")
                ELSE Did(<<"probe_gpu", "probe_driver_no">>)
                     /\ Goto("tv_install_driver")
    /\ UNCHANGED <<machine, store, via_hook, is_auto_continue,
                   package_manager, runs, studies>>

\* install_nvidia_driver(), the package-manager part.
test_vision_InstallDriver ==
    /\ pc = "tv_install_driver"
    /\ \E auto \in Outcomes, outs \in CandidateOutcomes :
         LET r == IF package_manager = "apt-get"
                  THEN install_nvidia_driver_apt(program, auto, outs)
                  ELSE IF package_manager = "dnf"
                       THEN install_nvidia_driver_dnf(program, auto)
                       ELSE install_nvidia_driver_none
         IN  /\ driver_pkg' = (driver_pkg \/ r.pkg)
             /\ Did(<<"driver_install",
                      IF r.success THEN "driver_ok" ELSE "driver_failed">>)
             /\ Goto(IF r.success THEN "tv_autostart" ELSE "tv_phase5")
    /\ UNCHANGED <<tools, program, os_type, installed_pm, gpu, nvidia_smi, nvcc,
                   clean_start, store, via_hook, is_auto_continue,
                   package_manager, gpu_info, runs, studies>>

\* install_nvidia_driver(): reboot only if create_auto_start_linux() is true;
\* needs_reboot=True is returned either way and main() returns.
test_vision_Autostart ==
    /\ pc = "tv_autostart"
    /\ \E f \in LinuxFailures :
         LET r == create_auto_start_linux(store, f)
         IN  /\ store' = r.store
             /\ IF r.ok
                THEN Did(<<"marker_ok">>) /\ Goto("reboot")
                ELSE Did(<<"marker_fail">>) /\ End("Failed")
    /\ UNCHANGED <<machine, via_hook, is_auto_continue, package_manager,
                   gpu_info, runs, studies>>

\* Phase 4, resumed runs only: check_gpu() (result unused), nvcc probe,
\* install_cuda() or remove_auto_start_linux().
test_vision_Phase4 ==
    /\ pc = "tv_phase4"
    /\ gpu_info' = check_gpu(gpu)
    /\ store' = remove_auto_start_linux(store)
    /\ IF ~check_nvcc(program, nvcc)
       THEN /\ \E o \in Outcomes : nvcc' \in NvccAfter(o)
            /\ Did(<<"probe_gpu", "probe_toolkit_no", "marker_remove",
                     "toolkit_install">>)
       ELSE /\ UNCHANGED nvcc
            /\ Did(<<"probe_gpu", "probe_toolkit_yes", "marker_remove">>)
    /\ Goto("tv_phase5")
    /\ UNCHANGED <<tools, program, os_type, installed_pm, gpu, nvidia_smi,
                   driver_pkg, clean_start, via_hook, is_auto_continue,
                   package_manager, runs, studies>>

\* Phase 5: GPU Burn when resumed or when the driver probe succeeds.
test_vision_Phase5 ==
    /\ pc = "tv_phase5"
    /\ IF is_auto_continue \/ check_nvidia_driver(program, nvidia_smi)
       THEN /\ gpu_info' = check_gpu(gpu)
            /\ Did(IF gpu_info'.has_gpu THEN <<"build">> ELSE <<>>)
       ELSE UNCHANGED <<gpu_info, log>>
    /\ Goto("tv_report")
    /\ UNCHANGED <<machine, store, via_hook, is_auto_continue,
                   package_manager, runs, studies>>

test_vision_Report ==
    /\ pc = "tv_report"
    /\ End("Complete")
    /\ UNCHANGED <<machine, store, via_hook, is_auto_continue,
                   package_manager, gpu_info, log, runs, studies>>

test_vision_main ==
    \/ test_vision_Start \/ test_vision_Phase1 \/ test_vision_CheckGpu
    \/ test_vision_InstallDriver \/ test_vision_Autostart
    \/ test_vision_Phase4 \/ test_vision_Phase5 \/ test_vision_Report

(***************************************************************************)
(* src/test_vision/client_v1.0/main.py, run_linux_setup()                  *)
(***************************************************************************)

\* LinuxInstaller.install_nvidia_driver_apt: the keyring file must exist
\* after wget, dpkg -i runs with check=True, the install with check=False.
client_v1_driver_apt(keyring, dpkg, inst) ==
    [success |-> keyring /\ run_cmd(TRUE, dpkg) /\ run_cmd(FALSE, inst),
     pkg |-> keyring /\ run_cmd(TRUE, dpkg) /\ inst = "zero"]

\* Package-manager detection, then the marker check.
client_v1_Start ==
    /\ pc = "start" /\ program = "client_v1" /\ os_type = "linux"
    /\ package_manager' = installed_pm
    /\ IF installed_pm = "none"
       THEN /\ UNCHANGED is_auto_continue
            /\ Did(<<"unsupported">>) /\ End("Failed")
       ELSE /\ is_auto_continue' = store.service
            /\ UNCHANGED log
            /\ Goto(IF store.service THEN "v1_resume" ELSE "v1_check_gpu")
    /\ UNCHANGED <<machine, store, via_hook, gpu_info, runs, studies>>

\* First run: check_gpu(); without a GPU only tools and Python packages.
client_v1_CheckGpu ==
    /\ pc = "v1_check_gpu"
    /\ gpu_info' = check_gpu(gpu)
    /\ IF gpu_info'.has_gpu
       THEN Did(<<"probe_gpu">>) /\ Goto("v1_probe") /\ UNCHANGED tools
       ELSE /\ Did(<<"probe_gpu", "base_tools", "py_packages">>)
            /\ install_system_tools
            /\ End("Complete")
    /\ UNCHANGED <<host, store, via_hook, is_auto_continue,
                   package_manager, runs, studies>>

\* Driver and toolkit probes; when both are present: tools, Python packages
\* and install_gpu_burn, which is called with a keyword it does not accept
\* when a compute capability is known.
client_v1_Probe ==
    /\ pc = "v1_probe"
    /\ LET has_driver == check_nvidia_driver(program, nvidia_smi)
           has_cuda == check_nvcc(program, nvcc)
           probes == <<IF has_driver THEN "probe_driver_yes" ELSE "probe_driver_no",
                       IF has_cuda THEN "probe_toolkit_yes" ELSE "probe_toolkit_no">>
       IN  IF has_driver /\ has_cuda
           THEN IF gpu_info.named
                THEN /\ Did(probes \o <<"base_tools", "py_packages">>)
                     /\ End("Crash")
                ELSE /\ Did(probes \o <<"base_tools", "py_packages", "build">>)
                     /\ End("Complete")
           ELSE /\ Did(probes \o <<"base_tools">>)
                /\ Goto("v1_install_driver")
    /\ install_system_tools
    /\ UNCHANGED <<host, store, via_hook, is_auto_continue,
                   package_manager, gpu_info, runs, studies>>

\* install_nvidia_driver_apt(gpu_info) / install_nvidia_driver_dnf(gpu_info);
\* the dnf method takes no argument, so that call raises TypeError.
client_v1_InstallDriver ==
    /\ pc = "v1_install_driver"
    /\ IF package_manager = "dnf"
       THEN /\ Did(<<"driver_install">>)
            /\ End("Crash")
            /\ UNCHANGED driver_pkg
       ELSE \E keyring \in BOOLEAN, dpkg \in Outcomes, inst \in Outcomes :
              LET r == client_v1_driver_apt(keyring, dpkg, inst)
              IN  /\ driver_pkg' = (driver_pkg \/ r.pkg)
                  /\ IF r.success
                     THEN Did(<<"driver_install", "driver_ok">>)
                          /\ Goto("v1_autostart")
                     ELSE Did(<<"driver_install", "driver_failed">>)
                          /\ End("Failed")
    /\ UNCHANGED <<tools, program, os_type, installed_pm, gpu, nvidia_smi, nvcc,
                   clean_start, store, via_hook, is_auto_continue,
                   package_manager, gpu_info, runs, studies>>

\* linux_installer.create_auto_start() -- the result is not looked at --
\* then the countdown and the reboot.
client_v1_Autostart ==
    /\ pc = "v1_autostart"
    /\ \E f \in LinuxFailures :
         LET r == create_auto_start_linux(store, f)
         IN  /\ store' = r.store
             /\ Did(<<IF r.ok THEN "marker_ok" ELSE "marker_fail">>)
    /\ Goto("reboot")
    /\ UNCHANGED <<machine, via_hook, is_auto_continue, package_manager,
                   gpu_info, runs, studies>>

\* Resumed run: remove_auto_start(), check_gpu(), check_nvidia_driver().
client_v1_Resume ==
    /\ pc = "v1_resume"
    /\ store' = remove_auto_start_linux(store)
    /\ gpu_info' = check_gpu(gpu)
    /\ IF check_nvidia_driver(program, nvidia_smi)
       THEN /\ Did(<<"marker_remove", "probe_gpu", "probe_driver_yes">>)
            /\ Goto("v1_post")
       ELSE /\ Did(<<"marker_remove", "probe_gpu", "probe_driver_no">>)
            /\ End("Failed")
    /\ UNCHANGED <<machine, via_hook, is_auto_continue, package_manager,
                   runs, studies>>

\* Resumed run, after the driver was found: nvcc is verified (nothing is
\* installed), Python packages, install_gpu_burn as in client_v1_Probe.
client_v1_Post ==
    /\ pc = "v1_post"
    /\ LET probe == IF check_nvcc(program, nvcc) THEN "probe_toolkit_yes"
                    ELSE "probe_toolkit_no"
       IN  IF gpu_info.has_gpu /\ gpu_info.named
           THEN Did(<<probe, "py_packages">>) /\ End("Crash")
           ELSE IF gpu_info.has_gpu
                THEN Did(<<probe, "py_packages", "build">>) /\ End("Complete")
                ELSE Did(<<probe, "py_packages">>) /\ End("Complete")
    /\ UNCHANGED <<machine, store, via_hook, is_auto_continue,
                   package_manager, gpu_info, runs, studies>>

(***************************************************************************)
(* src/test_vision/client_v1.0/main.py, run_windows_setup()                *)
(***************************************************************************)

client_v1_WinStart ==
    /\ pc = "start" /\ program = "client_v1" /\ os_type = "windows"
    /\ is_auto_continue' = store.flag
    /\ package_manager' = installed_pm
    /\ Goto(IF store.flag THEN "v1w_resume" ELSE "v1w_first")
    /\ UNCHANGED <<machine, store, via_hook, gpu_info, log, runs, studies>>

\* First run: check_gpu(), then install_chocolatey() when choco is missing.
client_v1_WinFirst ==
    /\ pc = "v1w_first"
    /\ gpu_info' = check_gpu(gpu)
    /\ IF package_manager = "choco"
       THEN /\ Did(<<"probe_gpu">>) /\ Goto("v1w_setup")
            /\ UNCHANGED installed_pm
       ELSE \E o \in Outcomes :
              IF o = "zero"
              THEN /\ installed_pm' \in {"choco", "none"}
                   /\ Did(<<"probe_gpu", "choco_install">>)
                   /\ Goto("v1w_autostart")
              ELSE /\ UNCHANGED installed_pm
                   /\ Did(<<"probe_gpu", "choco_failed">>)
                   /\ End("Failed")
    /\ UNCHANGED <<tools, program, os_type, gpu, nvidia_smi, nvcc, driver_pkg,
                   clean_start, store, via_hook, is_auto_continue,
                   package_manager, runs, studies>>

\* install_chocolatey(): self.create_auto_start() -- result not looked at --
\* then shutdown /r.
client_v1_WinAutostart ==
    /\ pc = "v1w_autostart"
    /\ \E f \in WindowsFailures :
         LET r == create_auto_start_windows(store, f)
         IN  /\ store' = r.store
             /\ Did(<<IF r.ok THEN "marker_ok" ELSE "marker_fail">>)
    /\ Goto("reboot")
    /\ UNCHANGED <<machine, via_hook, is_auto_continue, package_manager,
                   gpu_info, runs, studies>>

\* Resumed run: remove_auto_start(), then choco is looked for again.
client_v1_WinResume ==
    /\ pc = "v1w_resume"
    /\ store' = remove_auto_start_windows(store)
    /\ package_manager' = installed_pm
    /\ IF installed_pm = "choco"
       THEN Did(<<"marker_remove">>) /\ Goto("v1w_setup")
       ELSE Did(<<"marker_remove", "unsupported">>) /\ End("Failed")
    /\ UNCHANGED <<machine, via_hook, is_auto_continue, gpu_info, runs,
                   studies>>

\* Tools, Python packages, and with a GPU the driver and toolkit probes,
\* each followed by its install when the probe fails (both kinds of run).
client_v1_WinSetup ==
    /\ pc = "v1w_setup"
    /\ gpu_info' = check_gpu(gpu)
    /\ IF ~gpu_info'.has_gpu
       THEN /\ Did(<<"base_tools", "py_packages", "probe_gpu">>)
            /\ UNCHANGED <<driver_pkg, nvcc>>
       ELSE \E d \in Outcomes, c \in Outcomes :
              LET has_driver == run_cmd(FALSE, nvidia_smi)
                  has_cuda == run_cmd(FALSE, nvcc)
              IN  /\ driver_pkg' = (driver_pkg \/ (~has_driver /\ d = "zero"))
                  /\ nvcc' \in (IF has_cuda THEN {nvcc} ELSE NvccAfter(c))
                  /\ Did(<<"base_tools", "py_packages", "probe_gpu">>
                         \o (IF has_driver THEN <<"probe_driver_yes">>
                             ELSE <<"probe_driver_no", "driver_install">>)
                         \o (IF has_cuda THEN <<"probe_toolkit_yes">>
                             ELSE <<"probe_toolkit_no", "toolkit_install">>))
    /\ install_system_tools
    /\ End("Complete")
    /\ UNCHANGED <<program, os_type, installed_pm, gpu, nvidia_smi,
                   clean_start, store, via_hook, is_auto_continue,
                   package_manager, runs, studies>>

client_v1_main ==
    \/ client_v1_Start \/ client_v1_CheckGpu \/ client_v1_Probe
    \/ client_v1_InstallDriver \/ client_v1_Autostart
    \/ client_v1_Resume \/ client_v1_Post
    \/ client_v1_WinStart \/ client_v1_WinFirst \/ client_v1_WinAutostart
    \/ client_v1_WinResume \/ client_v1_WinSetup

(***************************************************************************)
(* src/test_vision/testVision.py, main()                                   *)
(*                                                                         *)
(* is_auto_continue looks at the systemd unit only, so the branch for a    *)
(* resumed run on Windows (lines 1353-1393) is never entered; and          *)
(* sys_mgr.check_and_install_gpu_burn_deps is not defined anywhere, so     *)
(* every path that reaches one of its three call sites raises              *)
(* AttributeError there.                                                   *)
(***************************************************************************)

\* SystemManager.install_nvidia_driver_dnf, driver part: module install,
\* then the plain package when that fails; both with check=False.
testVision_driver_dnf(module, direct) ==
    [auto |-> FALSE,
     tried |-> IF run_cmd(FALSE, module) THEN <<"nvidia-driver:latest-dkms">>
               ELSE <<"nvidia-driver:latest-dkms", "nvidia-driver">>,
     success |-> run_cmd(FALSE, module) \/ run_cmd(FALSE, direct),
     pkg |-> module = "zero" \/ (~run_cmd(FALSE, module) /\ direct = "zero")]

testVision_Start ==
    /\ pc = "start" /\ program = "testVision"
    /\ is_auto_continue' = store.service
    /\ package_manager' = installed_pm
    /\ Goto(IF store.service THEN "tvis_resume" ELSE "tvis_check")
    /\ UNCHANGED <<machine, store, via_hook, gpu_info, log, runs, studies>>

\* First run: check_gpu(), the driver and nvcc probes, and the dispatch on
\* platform and package manager.
testVision_Check ==
    /\ pc = "tvis_check"
    /\ gpu_info' = check_gpu(gpu)
    /\ LET has_driver == check_nvidia_driver(program, nvidia_smi)
           has_cuda == check_nvcc(program, nvcc)
           probes == <<"probe_gpu",
                       IF has_driver THEN "probe_driver_yes" ELSE "probe_driver_no",
                       IF has_cuda THEN "probe_toolkit_yes" ELSE "probe_toolkit_no">>
       IN  IF ~gpu_info'.has_gpu /\ os_type # "windows"
           THEN Did(<<"probe_gpu">>) /\ End("Complete")
           ELSE IF has_driver /\ has_cuda /\ os_type = "linux"
                THEN Did(probes) /\ End("Crash")
           ELSE IF os_type = "windows" /\ package_manager = "none"
                THEN Did(probes) /\ Goto("tvis_choco")
           ELSE IF package_manager \in {"dnf", "apt-get"}
                THEN Did(probes) /\ Goto("tvis_install_driver")
           ELSE Did(probes) /\ Goto("tvis_report")
    /\ UNCHANGED <<machine, store, via_hook, is_auto_continue,
                   package_manager, runs, studies>>

\* install_chocolatey(): the PowerShell installer.
testVision_Choco ==
    /\ pc = "tvis_choco"
    /\ \E o \in Outcomes :
         IF o = "zero"
         THEN /\ installed_pm' \in {"choco", "none"}
              /\ Did(<<"choco_install">>) /\ Goto("tvis_choco_autostart")
         ELSE /\ UNCHANGED installed_pm
              /\ Did(<<"choco_failed">>) /\ End("Failed")
    /\ UNCHANGED <<tools, program, os_type, gpu, nvidia_smi, nvcc, driver_pkg,
                   clean_start, store, via_hook, is_auto_continue,
                   package_manager, gpu_info, runs, studies>>

\* install_chocolatey(): create_auto_start_windows() -- result not looked
\* at -- then shutdown /r.
testVision_ChocoAutostart ==
    /\ pc = "tvis_choco_autostart"
    /\ \E f \in WindowsFailures :
         LET r == create_auto_start_windows(store, f)
         IN  /\ store' = r.store
             /\ Did(<<IF r.ok THEN "marker_ok" ELSE "marker_fail">>)
    /\ Goto("reboot")
    /\ UNCHANGED <<machine, via_hook, is_auto_continue, package_manager,
                   gpu_info, runs, studies>>

\* install_nvidia_driver_dnf / install_nvidia_driver_apt: driver, then the
\* toolkit in the same call; after a success main() calls the undefined
\* check_and_install_gpu_burn_deps.
testVision_InstallDriver ==
    /\ pc = "tvis_install_driver"
    /\ \E devices \in Outcomes, recommended \in BOOLEAN, auto \in Outcomes,
          outs \in CandidateOutcomes, c \in Outcomes :
         LET r == IF package_manager = "apt-get"
                  THEN testVision_driver_apt(devices, recommended, auto, outs)
                  ELSE testVision_driver_dnf(auto, outs[1])
         IN  /\ driver_pkg' = (driver_pkg \/ r.pkg)
             /\ IF ~r.success
                THEN /\ Did(<<"driver_install", "driver_failed">>)
                     /\ End("Failed")
                     /\ UNCHANGED nvcc
                ELSE /\ nvcc' \in NvccAfter(c)
                     /\ Did(<<"driver_install", "driver_ok", "toolkit_install">>)
                     /\ End(IF run_cmd(FALSE, c) THEN "Crash" ELSE "Failed")
    /\ UNCHANGED <<tools, program, os_type, installed_pm, gpu, nvidia_smi,
                   clean_start, store, via_hook, is_auto_continue,
                   package_manager, gpu_info, runs, studies>>

\* Resumed run on Linux: remove_auto_start_linux(), check_gpu(), the driver
\* probe, nvcc verification, Python packages, GPU Burn.
testVision_Resume ==
    /\ pc = "tvis_resume"
    /\ store' = remove_auto_start_linux(store)
    /\ gpu_info' = check_gpu(gpu)
    /\ IF ~check_nvidia_driver(program, nvidia_smi)
       THEN /\ Did(<<"marker_remove", "probe_gpu", "probe_driver_no">>)
            /\ End("Failed")
       ELSE /\ Did(<<"marker_remove", "probe_gpu", "probe_driver_yes",
                     IF check_nvcc(program, nvcc) THEN "probe_toolkit_yes"
                     ELSE "probe_toolkit_no",
                     "py_packages">>
                   \o (IF gpu_info'.has_gpu THEN <<"build">> ELSE <<>>))
            /\ Goto("tvis_report")
    /\ UNCHANGED <<machine, via_hook, is_auto_continue, package_manager,
                   runs, studies>>

testVision_Report ==
    /\ pc = "tvis_report"
    /\ End("Complete")
    /\ UNCHANGED <<machine, store, via_hook, is_auto_continue,
                   package_manager, gpu_info, log, runs, studies>>

testVision_main ==
    \/ testVision_Start \/ testVision_Check \/ testVision_Choco
    \/ testVision_ChocoAutostart \/ testVision_InstallDriver
    \/ testVision_Resume \/ testVision_Report

(***************************************************************************)
(* Specification of the sequencer                                          *)
(***************************************************************************)

\* What an earlier session of any copy of the tool (they share the marker
\* paths) can have left on the machine.
LeftoverStores(os) ==
    IF os = "linux"
    THEN {EmptyStore,
          [EmptyStore EXCEPT !.script = TRUE],
          [EmptyStore EXCEPT !.script = TRUE, !.service = TRUE],
          [EmptyStore EXCEPT !.script = TRUE, !.service = TRUE, !.enabled = TRUE],
          [EmptyStore EXCEPT !.service = TRUE, !.enabled = TRUE]}
    ELSE {EmptyStore,
          [EmptyStore EXCEPT !.flag = TRUE],
          [EmptyStore EXCEPT !.flag = TRUE, !.bat = TRUE]}

Init ==
    /\ program \in Programs
    /\ os_type \in {"linux", "windows"}
    /\ installed_pm \in (IF os_type = "linux" THEN {"apt-get", "dnf", "none"}
                         ELSE {"choco", "none"})
    /\ gpu \in {"none", "unnamed", "named"}
    /\ nvidia_smi \in Outcomes
    /\ nvcc \in Outcomes
    /\ driver_pkg = FALSE
    /\ store \in LeftoverStores(os_type)
    /\ clean_start = (store = EmptyStore)
    /\ tools \in BOOLEAN
    /\ pc = "idle"
    /\ via_hook = FALSE
    /\ is_auto_continue = FALSE
    /\ package_manager = "none"
    /\ gpu_info = NoGpuInfo
    /\ log = <<>>
    /\ outcome = "none"
    /\ runs = 0
    /\ fb = NoStudy /\ tl = NoStudy /\ cl = NoStudy /\ rc = NoStudy
    /\ ms = NoStudy /\ tb = NoStudy /\ bd = NoStudy
    /\ pb = NoStudy
    /\ dp = NoStudy

Next ==
    \/ ManualRun \/ Boot \/ Exit \/ IssueReboot
    \/ client_main
    \/ test_vision_main
    \/ client_v1_main
    \/ testVision_main

Spec == Init /\ [][Next]_vars

(***************************************************************************)
(* Component studies: one component is exercised on its own inputs while   *)
(* the sequencer stays idle.                                               *)
(***************************************************************************)

sequencer == <<machine, store, pc, via_hook, is_auto_continue,
               package_manager, gpu_info, log, outcome, runs>>

SequencerIdle ==
    /\ program = "client" /\ os_type = "linux" /\ installed_pm = "none"
    /\ gpu = "none" /\ nvidia_smi = "nolaunch" /\ nvcc = "nolaunch"
    /\ driver_pkg = FALSE /\ clean_start = TRUE /\ store = EmptyStore
    /\ tools = FALSE
    /\ pc = "idle" /\ via_hook = FALSE /\ is_auto_continue = FALSE
    /\ package_manager = "none" /\ gpu_info = NoGpuInfo /\ log = <<>>
    /\ outcome = "none" /\ runs = 0

(***************************************************************************)
(* Study of the command runner                                             *)
(***************************************************************************)

RunnerCopies == {"client", "test_vision", "client_v1", "testVision"}
Commands == {<<"nvidia-smi">>, <<"apt-get", "install", "-y", "git">>,
             <<"reboot">>}

\* if use_sudo and platform is linux: cmd = ['sudo'] + cmd
effective_cmd(argv, use_sudo, os) ==
    IF use_sudo /\ os = "linux" THEN <<"sudo">> \o argv ELSE argv

\* Which captured text is returned: result.stdout, e.stderr or str(e).
captured_output(check, o) ==
    IF o = "nolaunch" THEN "str(e)"
    ELSE IF o = "nonzero" /\ check THEN "stderr"
    ELSE "stdout"

InitRunCmd ==
    /\ SequencerIdle
    /\ fb = NoStudy /\ tl = NoStudy /\ cl = NoStudy /\ ms = NoStudy
    /\ tb = NoStudy /\ bd = NoStudy
    /\ pb = NoStudy
    /\ dp = NoStudy
    /\ \E impl \in RunnerCopies, os \in {"linux", "windows"},
          argv \in Commands, use_sudo \in BOOLEAN, check \in BOOLEAN,
          o \in Outcomes :
         /\ impl = "client" => check
         /\ rc = [on |-> TRUE, impl |-> impl, os |-> os, argv |-> argv,
                  use_sudo |-> use_sudo, check |-> check, exit |-> o,
                  phase |-> "called", cmd |-> <<>>, succeeded |-> FALSE,
                  output |-> "none"]

\* One call of the runner, from entry to its return statement.
RunCmdCall ==
    /\ rc.on /\ rc.phase = "called"
    /\ rc' = [rc EXCEPT
                !.phase = "returned",
                !.cmd = effective_cmd(rc.argv, rc.use_sudo, rc.os),
                !.succeeded = Runner(rc.impl, rc.check, rc.exit),
                !.output = captured_output(rc.check, rc.exit)]
    /\ UNCHANGED <<sequencer, fb, tl, cl, ms, tb, bd, pb, dp>>

NextRunCmd == RunCmdCall

SpecRunCmd == InitRunCmd /\ [][NextRunCmd]_vars

\* C10: whatever the argv, the flags and the outcome of the subprocess, the
\* runner returns a pair, and succeeded is true exactly when the command
\* exited with status zero.
C10_SucceededIffExitZero ==
    (rc.on /\ rc.phase = "returned")
        => /\ rc.output # "none"
           /\ rc.succeeded <=> (rc.exit = "zero")

(***************************************************************************)
(* Study of the driver fallback list                                       *)
(***************************************************************************)

FallbackCopies == {"client", "test_vision", "testVision"}

InitFallback ==
    /\ SequencerIdle
    /\ rc = NoStudy /\ tl = NoStudy /\ cl = NoStudy /\ ms = NoStudy
    /\ tb = NoStudy /\ bd = NoStudy
    /\ pb = NoStudy
    /\ dp = NoStudy
    /\ \E impl \in FallbackCopies, outs \in CandidateOutcomes :
         fb = [on |-> TRUE, impl |-> impl, outs |-> outs, phase |-> "loop",
               tried |-> <<>>, success |-> FALSE]

\* The whole `for driver in drivers` loop of one copy.
FallbackRun ==
    /\ fb.on /\ fb.phase = "loop"
    /\ LET r == fallback_loop(fb.impl, FALSE, fb.outs, 1, <<>>)
       IN  fb' = [fb EXCEPT !.phase = "done", !.tried = r.tried,
                            !.success = r.success]
    /\ UNCHANGED <<sequencer, rc, tl, cl, ms, tb, bd, pb, dp>>

NextFallback == FallbackRun

SpecFallback == InitFallback /\ [][NextFallback]_vars

OnlyKthSucceeds(outs, k) ==
    /\ outs[k] = "zero"
    /\ \A j \in 1..Len(drivers) : j # k => outs[j] # "zero"

\* C6: when only the k-th candidate's install succeeds, the loop has made
\* exactly k attempts, in list order (so none after the first success), and
\* reports success.
C6_FallbackOrdering ==
    (fb.on /\ fb.phase = "done")
        => \A k \in 1..Len(drivers) :
             OnlyKthSucceeds(fb.outs, k)
                => /\ fb.tried = SubSeq(drivers, 1, k)
                   /\ fb.success

(***************************************************************************)
(* Study of InstallBaseTools                                               *)
(***************************************************************************)

\* SYSTEM_TOOLS of client_v1.0/list.py.
SYSTEM_TOOLS == <<"git", "gcc", "g++", "make", "cmake", "wget", "curl",
                  "build-essential", "python3-pip">>

\* SYSTEM_TOOLS of client/install_package.py.
client_SYSTEM_TOOLS == <<"git", "gcc", "g++", "make", "cmake", "wget", "curl",
                         "build-essential">>

\* Entries of SYSTEM_TOOLS that are package names with no executable of the
\* same name, so `which` never finds them.
NotOnPath == {"build-essential", "python3-pip"}

\* Number of successive runs of install_system_tools that are followed.
MaxToolRuns == 2

ToolCopies == {"client", "client_v1"}
Range(f) == {f[x] : x \in DOMAIN f}
SelectTools(keep) == SelectSeq(SYSTEM_TOOLS, LAMBDA t : t \in keep)

\* Outcome of `which tool`.
which(tool, present, launch) ==
    IF ~launch THEN "nolaunch"
    ELSE IF tool \in present THEN "zero" ELSE "nonzero"

\* LinuxInstaller.install_system_tools: the probe loop; a tool is missing
\* when run_cmd(['which', tool], check=False) returns false.
missing_tools(present, launch) ==
    SelectTools({t \in Range(SYSTEM_TOOLS) :
                    ~run_cmd(FALSE, which(t, present, launch))})

\* The package-manager install calls one run makes, each with its package
\* list: the client copy installs the whole list every time, client_v1 the
\* missing subset when there is one.
install_calls(impl, present, launch) ==
    IF impl = "client" THEN <<client_SYSTEM_TOOLS>>
    ELSE IF missing_tools(present, launch) # <<>>
         THEN <<missing_tools(present, launch)>>
         ELSE <<>>

InitTools ==
    /\ SequencerIdle
    /\ rc = NoStudy /\ fb = NoStudy /\ cl = NoStudy /\ ms = NoStudy
    /\ tb = NoStudy /\ bd = NoStudy
    /\ pb = NoStudy
    /\ dp = NoStudy
    /\ \E impl \in ToolCopies, pm \in {"apt-get", "dnf"},
          present \in SUBSET (Range(SYSTEM_TOOLS) \ NotOnPath),
          launch \in BOOLEAN :
         tl = [on |-> TRUE, impl |-> impl, pm |-> pm, present |-> present,
               launch |-> launch, calls |-> <<>>, ok |-> <<>>,
               seen |-> <<>>]

\* One run of install_system_tools(SYSTEM_TOOLS); `o` is the outcome of its
\* install call when it makes one.  `seen` keeps what was on PATH when each
\* run started.
ToolsRun ==
    /\ tl.on /\ Len(tl.calls) < MaxToolRuns
    /\ \E o \in Outcomes :
         LET calls == install_calls(tl.impl, tl.present, tl.launch)
             done == calls = <<>> \/ Runner(tl.impl, TRUE, o)
             onpath == IF calls # <<>> /\ o = "zero"
                       THEN Range(calls[1]) \ NotOnPath ELSE {}
         IN  tl' = [tl EXCEPT !.calls = Append(@, calls),
                              !.ok = Append(@, done),
                              !.seen = Append(@, tl.present),
                              !.present = @ \cup onpath]
    /\ UNCHANGED <<sequencer, rc, fb, cl, ms, tb, bd, pb, dp>>

NextTools == ToolsRun

SpecTools == InitTools /\ [][NextTools]_vars

\* C7: after a first run of InstallBaseTools that reported success, a second
\* run in succession performs no package-manager install call.
C7_SecondRunInstallsNothing ==
    (tl.on /\ Len(tl.calls) >= 2 /\ tl.ok[1]) => tl.calls[2] = <<>>

(***************************************************************************)
(* Study of the capability classifier                                      *)
(*                                                                         *)
(* A string is a sequence of one-character strings.  The three copies of   *)
(* the table and of the lookup (gpu_detect.py, install_package.py,         *)
(* testVision.py) are identical.  The dictionary is scanned in insertion   *)
(* order; its last key, 'default', is scanned like every other key.        *)
(***************************************************************************)

GPU_COMPUTE_CAPABILITY == <<
    [key |-> <<"r", "t", "x", " ", "4", "0", "9", "0">>, cc |-> "8.9"],
    [key |-> <<"r", "t", "x", " ", "4", "0", "8", "0">>, cc |-> "8.9"],
    [key |-> <<"r", "t", "x", " ", "4", "0", "7", "0">>, cc |-> "8.9"],
    [key |-> <<"r", "t", "x", " ", "4", "0", "6", "0">>, cc |-> "8.9"],
    [key |-> <<"r", "t", "x", " ", "3", "0", "9", "0">>, cc |-> "8.6"],
    [key |-> <<"r", "t", "x", " ", "3", "0", "8", "0">>, cc |-> "8.6"],
    [key |-> <<"r", "t", "x", " ", "3", "0", "7", "0">>, cc |-> "8.6"],
    [key |-> <<"r", "t", "x", " ", "3", "0", "6", "0">>, cc |-> "8.6"],
    [key |-> <<"r", "t", "x", " ", "2", "0", "8", "0">>, cc |-> "7.5"],
    [key |-> <<"r", "t", "x", " ", "2", "0", "7", "0">>, cc |-> "7.5"],
    [key |-> <<"r", "t", "x", " ", "2", "0", "6", "0">>, cc |-> "7.5"],
    [key |-> <<"g", "t", "x", " ", "1", "0", "8", "0">>, cc |-> "6.1"],
    [key |-> <<"g", "t", "x", " ", "1", "0", "7", "0">>, cc |-> "6.1"],
    [key |-> <<"g", "t", "x", " ", "1", "0", "6", "0">>, cc |-> "6.1"],
    [key |-> <<"t", "e", "s", "l", "a", " ", "v", "1", "0", "0">>, cc |-> "7.0"],
    [key |-> <<"t", "e", "s", "l", "a", " ", "p", "1", "0", "0">>, cc |-> "6.0"],
    [key |-> <<"t", "e", "s", "l", "a", " ", "k", "8", "0">>, cc |-> "3.7"],
    [key |-> <<"t", "e", "s", "l", "a", " ", "k", "4", "0">>, cc |-> "3.5"],
    [key |-> <<"a", "1", "0", "0">>, cc |-> "8.0"],
    [key |-> <<"a", "4", "0">>, cc |-> "8.6"],
    [key |-> <<"a", "3", "0">>, cc |-> "8.0"],
    [key |-> <<"a", "1", "0">>, cc |-> "8.6"],
    [key |-> <<"q", "u", "a", "d", "r", "o", " ", "r", "t", "x">>, cc |-> "7.5"],
    [key |-> <<"d", "e", "f", "a", "u", "l", "t">>, cc |-> "7.5"]
>>

UpperCase == <<"A", "B", "C", "D", "E", "F", "G", "H", "I", "J", "K", "L", "M", "N", "O", "P", "Q", "R", "S", "T", "U", "V", "W", "X", "Y", "Z">>
LowerCase == <<"a", "b", "c", "d", "e", "f", "g", "h", "i", "j", "k", "l", "m", "n", "o", "p", "q", "r", "s", "t", "u", "v", "w", "x", "y", "z">>

\* str.lower() on the characters that occur in device names.
lower_char(c) ==
    IF \E i \in 1..Len(UpperCase) : UpperCase[i] = c
    THEN LowerCase[CHOOSE i \in 1..Len(UpperCase) : UpperCase[i] = c]
    ELSE c

lower(str) == [i \in 1..Len(str) |-> lower_char(str[i])]

\* `key in gpu_name_lower`
IsSubstring(key, str) ==
    \E i \in 0..(Len(str) - Len(key)) : SubSeq(str, i + 1, i + Len(key)) = key

\* GPU_COMPUTE_CAPABILITY['default']
dict_default ==
    GPU_COMPUTE_CAPABILITY[CHOOSE i \in 1..Len(GPU_COMPUTE_CAPABILITY) :
        GPU_COMPUTE_CAPABILITY[i].key = <<"d", "e", "f", "a", "u", "l", "t">>].cc

\* A scan in which the last matching entry at or after i wins.
scan_last(gpu_name_lower, i) ==
    LET hits == {j \in i..Len(GPU_COMPUTE_CAPABILITY) :
                    IsSubstring(GPU_COMPUTE_CAPABILITY[j].key, gpu_name_lower)}
    IN  IF hits = {} THEN 0 ELSE CHOOSE j \in hits : \A k \in hits : k <= j

\* for key, cc in GPU_COMPUTE_CAPABILITY.items(): if key in name: return
\* -- the index of the entry the loop returns at, 0 when it runs out.
RECURSIVE scan(_, _)
scan(gpu_name_lower, i) ==
    IF i > Len(GPU_COMPUTE_CAPABILITY) THEN 0
    ELSE IF IsSubstring(GPU_COMPUTE_CAPABILITY[i].key, gpu_name_lower) THEN i
    ELSE scan(gpu_name_lower, i + 1)

\* A lookup in which the last matching entry wins.
get_compute_capability_last(gpu_name) ==
    LET hits == {i \in 1..Len(GPU_COMPUTE_CAPABILITY) :
                    IsSubstring(GPU_COMPUTE_CAPABILITY[i].key, lower(gpu_name))}
    IN  IF hits = {} THEN [cc |-> dict_default, warnings |-> 1]
        ELSE [cc |-> GPU_COMPUTE_CAPABILITY[
                        CHOOSE i \in hits : \A j \in hits : j <= i].cc,
              warnings |-> 0]

\* A lookup that never prints the warning.
get_compute_capability_silent(gpu_name) ==
    LET i == scan(lower(gpu_name), 1)
    IN  IF i # 0 THEN [cc |-> GPU_COMPUTE_CAPABILITY[i].cc, warnings |-> 0]
        ELSE [cc |-> dict_default, warnings |-> 0]

\* get_compute_capability / _get_compute_capability: the value returned and
\* the number of warning lines printed.
get_compute_capability(gpu_name) ==
    LET i == scan(lower(gpu_name), 1)
    IN  IF i # 0 THEN [cc |-> GPU_COMPUTE_CAPABILITY[i].cc, warnings |-> 0]
        ELSE [cc |-> dict_default, warnings |-> 1]

\* Pieces device names are put together from.
NameTokens == {
    <<"R", "T", "X", " ", "4", "0", "9", "0">>,
    <<"r", "t", "x", " ", "4", "0", "9", "0">>,
    <<"N", "V", "I", "D", "I", "A", " ", "G", "e", "F", "o", "r", "c", "e", " ">>,
    <<"A", "1", "0", "0">>,
    <<" ", "a", "1", "0">>,
    <<"T", "e", "s", "l", "a", " ", "V", "1", "0", "0">>,
    <<"Q", "u", "a", "d", "r", "o", " ", "R", "T", "X", " ">>,
    <<"U", "n", "k", "n", "o", "w", "n", " ", "W", "i", "d", "g", "e", "t", " ", "9", "0", "0", "0">>,
    <<"D", "e", "f", "a", "u", "l", "t">>,
    <<"G", "T", "X", " ", "1", "0", "8", "0">>,
    <<" ", "T", "i">>,
    <<"N", "V", "I", "D", "I", "A", " ">>
}

\* Bound on the number of pieces in a device name.
MaxTokens == 2

RECURSIVE NamesOf(_)
NamesOf(n) ==
    IF n = 0 THEN {<<>>}
    ELSE {a \o b : a \in NamesOf(n - 1), b \in NameTokens}

DeviceNames == UNION {NamesOf(n) : n \in 1..MaxTokens}

InitClassify ==
    /\ SequencerIdle
    /\ rc = NoStudy /\ fb = NoStudy /\ tl = NoStudy /\ ms = NoStudy
    /\ tb = NoStudy /\ bd = NoStudy
    /\ pb = NoStudy
    /\ dp = NoStudy
    /\ \E name \in DeviceNames :
         cl = [on |-> TRUE, name |-> name, phase |-> "called",
               cc |-> "none", warnings |-> 0]

\* One call of the classifier.
Classify ==
    /\ cl.on /\ cl.phase = "called"
    /\ LET r == get_compute_capability(cl.name)
       IN  cl' = [cl EXCEPT !.phase = "returned", !.cc = r.cc,
                            !.warnings = r.warnings]
    /\ UNCHANGED <<sequencer, rc, fb, tl, ms, tb, bd, pb, dp>>

NextClassify == Classify

SpecClassify == InitClassify /\ [][NextClassify]_vars

\* The documented default tier.
DefaultTier == "7.5"

\* Index of the first table entry whose pattern occurs in the lower-cased
\* name, 0 when there is none.
FirstMatch(name) ==
    LET hits == {i \in 1..Len(GPU_COMPUTE_CAPABILITY) :
                    IsSubstring(GPU_COMPUTE_CAPABILITY[i].key, lower(name))}
    IN  IF hits = {} THEN 0 ELSE CHOOSE i \in hits : \A j \in hits : i <= j

ExpectedTier(name) ==
    IF FirstMatch(name) = 0 THEN DefaultTier
    ELSE GPU_COMPUTE_CAPABILITY[FirstMatch(name)].cc

RTX_4090 == <<"R", "T", "X", " ", "4", "0", "9", "0">>
Unknown_Widget_9000 == <<"U", "n", "k", "n", "o", "w", "n", " ", "W", "i", "d", "g", "e", "t", " ", "9", "0", "0", "0">>

Ended == pc = "done"
ToolkitProbed == Has("probe_toolkit_yes") \/ Has("probe_toolkit_no")

\* C1: a run that has issued a reboot wrote the resume marker and its
\* autostart hook successfully before it, no marker creation reported
\* failure in that run, and the marker is on disk when the reboot is issued.
C1_RebootOnlyAfterMarker ==
    (Ended /\ outcome = "Reboot")
        => /\ Has("marker_ok")
           /\ ~Has("marker_fail")
           /\ First("marker_ok") < First("reboot")
           /\ MarkerExists

\* C2: on Linux with a GPU, a run that found the marker at startup while the
\* driver probe is false ends Failed with the marker removed, and has issued
\* no reboot and no driver install.
C2_LoopBreaker ==
    (Ended /\ clean_start /\ os_type = "linux" /\ is_auto_continue
       /\ gpu # "none" /\ ~check_nvidia_driver(program, nvidia_smi))
        => /\ outcome = "Failed"
           /\ ~MarkerExists
           /\ ~Has("reboot")
           /\ ~Has("driver_install")

\* C3: when a run has ended Complete or Failed on a machine that had no
\* marker before the tool was first used, no resume marker exists.
C3_NoMarkerAfterTerminalRun ==
    (Ended /\ clean_start /\ outcome \in {"Complete", "Failed"})
        => ~MarkerExists

C5_NoGpuShortCircuit ==
    (Ended /\ os_type = "linux" /\ Has("probe_gpu") /\ ~gpu_info.has_gpu)
        => /\ ~Has("driver_install")
           /\ ~Has("toolkit_install")
           /\ outcome = "Complete"

\* C11: a run started by the autostart hook (it follows a reboot of the same
\* chain and found the marker its predecessor wrote) issues no reboot and
\* writes no marker, so a chain of hook-started runs reboots at most once.
C11_NoRebootLoop ==
    (Ended /\ via_hook)
        => /\ ~Has("reboot")
           /\ ~Has("marker_ok")
           /\ ~Has("marker_fail")


\* C12: on a machine that started without marker files, whenever marker
\* files are on disk and the current run has written (or partly written)
\* them, the driver package install had reported success earlier in that run.
C12_MarkerOnlyAfterDriverInstall ==
    (clean_start /\ MarkerExists /\ (Has("marker_ok") \/ Has("marker_fail")))
        => /\ Has("driver_ok")
           /\ (Has("marker_ok") => First("driver_ok") < First("marker_ok"))
           /\ (Has("marker_fail") => First("driver_ok") < First("marker_fail"))


(***************************************************************************)
(* Study of the resume marker store                                        *)
(***************************************************************************)

\* Bound on the number of remove calls followed in one behaviour.
MaxRemoves == 2

LinuxStoreCopies == {"client", "test_vision", "client_v1", "testVision"}
WindowsStoreCopies == {"client", "client_v1", "testVision"}
RemoveFailures == {"none", "first", "second"}

\* os.path.exists() of the marker files of one platform.
FilesPresent(os, s) ==
    IF os = "linux" THEN s.service \/ s.script ELSE s.flag \/ s.bat

remove_auto_start_linux_call_unguarded(s, disable, fail) ==
    IF (fail = "first") \/ ~s.service
    THEN [store |-> [s EXCEPT !.enabled = (s.enabled /\ disable # "zero")],
          ok |-> FALSE]
    ELSE IF (fail = "second") \/ ~s.script
         THEN [store |-> [s EXCEPT !.service = FALSE, !.enabled = FALSE],
               ok |-> FALSE]
    ELSE [store |-> remove_auto_start_linux(s), ok |-> TRUE]

\* One call of remove_auto_start_linux with its return value: systemctl
\* disable and stop (results ignored), then inside try: delete the unit
\* file if it exists, delete the relaunch script if it exists,
\* daemon-reload, return True; any exception returns False.  `fail` names
\* the os.remove call that raises, if that call is made at all.
remove_auto_start_linux_call(s, disable, fail) ==
    IF fail = "first" /\ s.service
    THEN [store |-> [s EXCEPT !.enabled = (s.enabled /\ disable # "zero")],
          ok |-> FALSE]
    ELSE IF fail = "second" /\ s.script
         THEN [store |-> [s EXCEPT !.service = FALSE, !.enabled = FALSE],
               ok |-> FALSE]
    ELSE [store |-> remove_auto_start_linux(s), ok |-> TRUE]

\* One call of remove_auto_start_windows with its return value: inside try,
\* delete the startup script if it exists, then the flag file if it exists.
remove_auto_start_windows_call(s, fail) ==
    IF fail = "first" /\ s.bat THEN [store |-> s, ok |-> FALSE]
    ELSE IF fail = "second" /\ s.flag
         THEN [store |-> [s EXCEPT !.bat = FALSE], ok |-> FALSE]
    ELSE [store |-> remove_auto_start_windows(s), ok |-> TRUE]

StudyStores(os) ==
    IF os = "linux"
    THEN {[EmptyStore EXCEPT !.service = a, !.script = b, !.enabled = c] :
            a \in BOOLEAN, b \in BOOLEAN, c \in BOOLEAN}
    ELSE {[EmptyStore EXCEPT !.flag = a, !.bat = b] :
            a \in BOOLEAN, b \in BOOLEAN}

InitStore ==
    /\ SequencerIdle
    /\ rc = NoStudy /\ fb = NoStudy /\ tl = NoStudy /\ cl = NoStudy
    /\ tb = NoStudy /\ bd = NoStudy
    /\ pb = NoStudy
    /\ dp = NoStudy
    /\ \E os \in {"linux", "windows"} :
         \E impl \in (IF os = "linux" THEN LinuxStoreCopies
                      ELSE WindowsStoreCopies),
            s \in StudyStores(os) :
           ms = [on |-> TRUE, impl |-> impl, os |-> os, store |-> s,
                 hist |-> <<>>]

\* remove_auto_start() called once more on whatever the store holds now.
StoreRemove ==
    /\ ms.on /\ Len(ms.hist) < MaxRemoves
    /\ \E disable \in Outcomes, fail \in RemoveFailures :
         /\ ms.os = "windows" => disable = "zero"
         /\ LET r == IF ms.os = "linux"
                     THEN remove_auto_start_linux_call(ms.store, disable, fail)
                     ELSE remove_auto_start_windows_call(ms.store, fail)
            IN  ms' = [ms EXCEPT
                         !.store = r.store,
                         !.hist = Append(@, [before |-> ms.store,
                                             disable |-> disable,
                                             after |-> r.store,
                                             ok |-> r.ok])]
    /\ UNCHANGED <<sequencer, rc, fb, tl, cl, tb, bd, pb, dp>>

NextStore == StoreRemove

SpecStore == InitStore /\ [][NextStore]_vars

\* C13: a remove call made while no marker file is present returns True and
\* leaves no marker file, on both platforms; and once a remove call has
\* returned True, the next call returns True and changes nothing.
C13_RemoveSafeAndIdempotent ==
    ms.on =>
        /\ \A i \in 1..Len(ms.hist) :
             ~FilesPresent(ms.os, ms.hist[i].before)
                 => /\ ms.hist[i].ok
                    /\ ~FilesPresent(ms.os, ms.hist[i].after)
        /\ \A i \in 1..(Len(ms.hist) - 1) :
             ms.hist[i].ok
                 => /\ ms.hist[i + 1].ok
                    /\ ms.hist[i + 1].after = ms.hist[i].after

C13_Witness ==
    /\ ms.on /\ ms.os = "linux" /\ Len(ms.hist) = 2
    /\ ms.hist[1].before.service /\ ms.hist[1].before.script
    /\ ms.hist[1].ok /\ ms.hist[2].ok
    /\ ms.hist[2].disable = "nonzero"
    /\ ~FilesPresent("linux", ms.hist[2].before)
    /\ ms.store = EmptyStore


(***************************************************************************)
(* Properties of the start-up resume check                                 *)
(***************************************************************************)

\* Positions a Linux process is in right after its start-up check, before
\* any step has touched the marker files.
StartupChecked == {"c_phase0", "tv_phase1", "tv_phase4", "v1_check_gpu",
                   "v1_resume", "tvis_check", "tvis_resume"}

\* C14: on Linux, right after the start-up check, the run is treated as
\* resume pending exactly when the unit file or the relaunch script is on
\* disk, whichever of the four combinations of the two files holds.
C14_ResumePendingOnEitherFile ==
    (clean_start /\ os_type = "linux" /\ pc \in StartupChecked)
        => (is_auto_continue <=> (store.service \/ store.script))


(***************************************************************************)
(* Properties of the relaunch script                                       *)
(***************************************************************************)

\* C15: the relaunch script names the interpreter of the run that wrote it
\* and the sequencer's own entry-point, so that whenever the machine boots
\* with the hook armed after a reboot the tool issued, the process that
\* starts is a run of the sequencer started by the hook.
C15_HookStartsSequencer ==
    [][(pc = "done" /\ outcome = "Reboot" /\ HookArmed /\ pc' # "done")
          => /\ script_content(program, os_type).target = entry_point(program)
             /\ script_content(program, os_type).interpreter = "sys.executable"
             /\ pc' = "start" /\ via_hook']_vars


(***************************************************************************)
(* Properties of the suspension point                                      *)
(***************************************************************************)

\* C16: in every run, a marker write comes directly after a successful
\* driver install and a reboot comes after one; no other step (base tools,
\* package-manager bootstrap, toolkit, build) writes a marker or reboots.
C16_OnlyInstallDriverSuspends ==
    \A i \in 1..Len(log) :
        /\ log[i] \in {"marker_ok", "marker_fail"}
              => (i > 1 /\ log[i - 1] = "driver_ok")
        /\ log[i] = "reboot"
              => \E j \in 1..(i - 1) : log[j] = "driver_ok"


(***************************************************************************)
(* Properties of the toolkit step                                          *)
(***************************************************************************)

\* C17: when a run of the client or test_vision copy that has reached the
\* toolkit step ends, no marker file is left on disk, whether the toolkit
\* was installed in this run, was already present, or its install failed;
\* and the removal comes before the build.
C17_ToolkitStepRemovesMarker ==
    (Ended /\ program \in {"client", "test_vision"} /\ ToolkitProbed)
        => /\ ~MarkerExists
           /\ Has("build") => (Has("marker_remove")
                                 => First("marker_remove") < First("build"))


(***************************************************************************)
(* Properties of the process exit status                                   *)
(***************************************************************************)

\* The exit status of the python process: the __main__ block calls main()
\* and drops its return; no copy calls sys.exit, so the status is 0 after
\* any return of main() and 1 after an uncaught exception.
exit_status(o) == IF o = "Crash" THEN 1 ELSE 0

\* C18: a run that ended exits with status 0 exactly when its outcome is
\* Complete; a run that ended Failed (unsupported platform, driver install
\* failed, driver still absent after the reboot) exits with a non-zero
\* status.
C18_ExitCodes ==
    (Ended /\ outcome \in {"Complete", "Failed"})
        => ((exit_status(outcome) = 0) <=> (outcome = "Complete"))


(***************************************************************************)
(* Properties of the probes                                                *)
(***************************************************************************)

\* C19: while a run is in progress or has just ended, a driver probe that
\* reported "installed" was answered by a driver-status command that exited
\* with status zero, and likewise for the toolkit probe: a failing command
\* makes the probe report false.
C19_FailingProbeReportsFalse ==
    (pc # "idle")
        => /\ Has("probe_driver_yes") => nvidia_smi = "zero"
           /\ (Has("probe_toolkit_yes") /\ ~Has("toolkit_install"))
                 => nvcc = "zero"


(***************************************************************************)
(* Study of the capability table                                           *)
(***************************************************************************)

TableIndices == 1..Len(GPU_COMPUTE_CAPABILITY)

\* Position of a pattern in the scan order.
IndexOf(key) == CHOOSE i \in TableIndices : GPU_COMPUTE_CAPABILITY[i].key = key

a10 == <<"a", "1", "0">>
a100 == <<"a", "1", "0", "0">>

InitTable ==
    /\ SequencerIdle
    /\ rc = NoStudy /\ fb = NoStudy /\ tl = NoStudy /\ cl = NoStudy
    /\ ms = NoStudy /\ bd = NoStudy
    /\ pb = NoStudy
    /\ dp = NoStudy
    /\ \E p \in TableIndices, q \in TableIndices :
         tb = [on |-> TRUE, p |-> p, q |-> q, phase |-> "called",
               hit |-> 0, cc |-> "none"]

\* The classifier is called with the text of pattern q as the device name.
LookupPattern ==
    /\ tb.on /\ tb.phase = "called"
    /\ LET text == GPU_COMPUTE_CAPABILITY[tb.q].key
       IN  tb' = [tb EXCEPT !.phase = "returned",
                            !.hit = scan(lower(text), 1),
                            !.cc = get_compute_capability(text).cc]
    /\ UNCHANGED <<sequencer, rc, fb, tl, cl, ms, bd, pb, dp>>

NextTable == LookupPattern

SpecTable == InitTable /\ [][NextTable]_vars

\* C20: for any two distinct patterns p and q of the table with p a
\* substring of q, q comes before p in the scan order; and a lookup of a
\* pattern's own text returns at that pattern's entry, with its tier.
C20_TableOrdering ==
    (tb.on /\ tb.phase = "returned")
        => /\ (tb.p # tb.q
                 /\ IsSubstring(GPU_COMPUTE_CAPABILITY[tb.p].key,
                                GPU_COMPUTE_CAPABILITY[tb.q].key))
                 => tb.q < tb.p
           /\ tb.hit = tb.q
           /\ tb.cc = GPU_COMPUTE_CAPABILITY[tb.q].cc

C20_Witness ==
    /\ tb.on /\ tb.phase = "returned"
    /\ tb.p = IndexOf(a10) /\ tb.q = IndexOf(a100)
    /\ IsSubstring(a10, a100)
    /\ tb.hit = IndexOf(a100) /\ tb.cc = "8.0"


(***************************************************************************)
(* Study of the store round trip: create, then remove                      *)
(***************************************************************************)

\* The start-up check each copy uses as exists(): the client tests the unit
\* file or the flag file, client_v1 the unit file on Linux and the flag file
\* on Windows, the other two copies the unit file on every platform.
exists(impl, os, s) ==
    CASE impl = "client" -> s.service \/ s.flag
      [] impl = "client_v1" -> IF os = "linux" THEN s.service ELSE s.flag
      [] OTHER -> s.service

NoCall == [called |-> FALSE]

InitRoundTrip ==
    /\ SequencerIdle
    /\ rc = NoStudy /\ fb = NoStudy /\ tl = NoStudy /\ cl = NoStudy
    /\ tb = NoStudy /\ bd = NoStudy
    /\ pb = NoStudy
    /\ dp = NoStudy
    /\ \E os \in {"linux", "windows"} :
         \E impl \in (IF os = "linux" THEN LinuxStoreCopies
                      ELSE WindowsStoreCopies),
            s \in StudyStores(os) :
           ms = [on |-> TRUE, impl |-> impl, os |-> os, store |-> s,
                 hist |-> <<>>, made |-> NoCall]

\* create_auto_start() called on whatever the store holds now.
StoreCreate ==
    /\ ms.on /\ ~ms.made.called /\ ms.hist = <<>>
    /\ \E fail \in (IF ms.os = "linux" THEN LinuxFailures
                    ELSE WindowsFailures) :
         LET r == IF ms.os = "linux"
                  THEN create_auto_start_linux(ms.store, fail)
                  ELSE create_auto_start_windows(ms.store, fail)
         IN  ms' = [ms EXCEPT
                      !.store = r.store,
                      !.made = [called |-> TRUE, fail |-> fail,
                                before |-> ms.store,
                                after |-> r.store, ok |-> r.ok]]
    /\ UNCHANGED <<sequencer, rc, fb, tl, cl, tb, bd, pb, dp>>

NextRoundTrip == StoreCreate \/ StoreRemove

SpecRoundTrip == InitRoundTrip /\ [][NextRoundTrip]_vars

\* C21: on both platforms, right after a create call that returned True
\* the copy's own start-up check finds the marker, and after a remove call
\* that returned True, from whatever store state, it does not.
C21_StoreRoundTrip ==
    ms.on =>
        /\ (ms.made.called /\ ms.made.ok)
              => exists(ms.impl, ms.os, ms.made.after)
        /\ \A i \in 1..Len(ms.hist) :
              ms.hist[i].ok => ~exists(ms.impl, ms.os, ms.hist[i].after)


(***************************************************************************)
(* Properties of the driver step                                           *)
(***************************************************************************)

\* C22: a run invokes the driver install only after its driver probe has
\* returned "not installed"; a run whose driver probe returned "installed"
\* invokes no driver install, writes no marker and issues no reboot.
C22_InstallDriverOnlyWhenAbsent ==
    /\ Has("driver_install")
          => (Has("probe_driver_no")
                /\ First("probe_driver_no") < First("driver_install"))
    /\ Has("probe_driver_yes")
          => /\ ~Has("driver_install")
             /\ ~Has("marker_ok") /\ ~Has("marker_fail")
             /\ ~Has("reboot")


(***************************************************************************)
(* Properties of InstallBaseTools                                          *)
(***************************************************************************)

\* The tool list a copy passes to install_system_tools.
RequiredTools(impl) ==
    IF impl = "client" THEN client_SYSTEM_TOOLS ELSE SYSTEM_TOOLS

\* Required tools for which `which` does not exit with status zero.
AbsentTools(impl, present, launch) ==
    SelectSeq(RequiredTools(impl),
              LAMBDA t : which(t, present, launch) # "zero")

\* What was on PATH when run i ended.
PresentAfter(i) == IF i < Len(tl.seen) THEN tl.seen[i + 1] ELSE tl.present

\* C23: every run of InstallBaseTools makes one install call holding exactly
\* the required tools that `which` does not find, and none when `which`
\* finds them all; and after a run that reported success every required
\* executable is on PATH.
C23_InstallsExactlyMissing ==
    tl.on =>
        \A i \in 1..Len(tl.calls) :
            LET absent == AbsentTools(tl.impl, tl.seen[i], tl.launch)
            IN  /\ tl.calls[i] = (IF absent = <<>> THEN <<>> ELSE <<absent>>)
                /\ tl.ok[i]
                      => (Range(RequiredTools(tl.impl)) \ NotOnPath)
                            \subseteq PresentAfter(i)


\* C24: an apt-get run whose driver install reported failure (every candidate
\* of the fallback list failed) has ended in Failed, not Complete, has written no
\* marker and has issued no reboot.
C24_FallbackExhaustionFails ==
    (Ended /\ package_manager = "apt-get" /\ Has("driver_failed"))
        => /\ outcome = "Failed"
           /\ ~Has("marker_ok") /\ ~Has("marker_fail")
           /\ ~Has("reboot")


(***************************************************************************)
(* Properties of the run without a GPU                                     *)
(***************************************************************************)

\* C25: a first run on Linux (no marker found) whose device probe reported
\* no GPU has executed InstallBaseTools and ended Complete, with no driver install,
\* no toolkit install and no build.
C25_NoGpuStillInstallsBaseTools ==
    (Ended /\ os_type = "linux" /\ ~is_auto_continue
           /\ Has("probe_gpu") /\ ~gpu_info.has_gpu)
        => /\ Has("base_tools")
           /\ outcome = "Complete"
           /\ ~Has("driver_install")
           /\ ~Has("toolkit_install")
           /\ ~Has("build")


\* C26: a run on a machine with a GPU that ended Complete leaves a toolkit
\* that its own probe finds, and a run whose toolkit probe reported
\* "absent" has invoked the toolkit install.
C26_ToolkitPostcondition ==
    (Ended /\ outcome = "Complete" /\ gpu_info.has_gpu)
        => /\ check_nvcc(program, nvcc)
           /\ Has("probe_toolkit_no") => Has("toolkit_install")


(***************************************************************************)
(* Properties of the resumed run                                           *)
(***************************************************************************)

\* C27: on a machine that started without marker files, a run that found
\* the marker and ended Complete while base tools are still missing has
\* executed InstallBaseTools: the step is not skipped because of the marker.
C27_ResumeRunsNeededSteps ==
    (Ended /\ clean_start /\ is_auto_continue /\ outcome = "Complete" /\ ~tools)
        => Has("base_tools")


(***************************************************************************)
(* Liveness of the resume chain                                            *)
(***************************************************************************)

\* The machine boots after a reboot was issued, and a started process runs
\* to its end; the operator is under no obligation to start the tool.
SpecLive ==
    /\ Init /\ [][Next]_vars
    /\ WF_vars(Boot) /\ WF_vars(Exit) /\ WF_vars(IssueReboot)
    /\ WF_vars(client_main) /\ WF_vars(test_vision_main)
    /\ WF_vars(client_v1_main) /\ WF_vars(testVision_main)

\* A run has issued the reboot that follows a successful driver install and
\* the hook it wrote is armed.
DriverRebootIssued ==
    /\ pc = "done" /\ outcome = "Reboot"
    /\ Has("driver_ok") /\ Has("marker_ok") /\ HookArmed
    /\ runs < MaxRuns

\* C28: once a run has issued the reboot of the driver step with the hook
\* armed, the sequencer is eventually started by the hook, and a run
\* eventually ends Complete or Failed with no marker left.
C28_ResumeLiveness ==
    DriverRebootIssued
        ~> (Ended /\ via_hook /\ outcome \in {"Complete", "Failed"}
              /\ ~MarkerExists)


(***************************************************************************)
(* Termination of a run                                                    *)
(***************************************************************************)

\* Number of times a run has done e.
CountOf(e) == Cardinality({i \in 1..Len(log) : log[i] = e})

InstallSteps == {"driver_install", "toolkit_install", "choco_install"}
InstallDriverPositions == {"c_install_driver", "tv_install_driver",
                           "tvis_install_driver"}

\* A run enters each install step at most once, and whatever the outcomes
\* of the candidates the fallback loop tries no more than the list holds.
InstallAttemptsBounded ==
    /\ \A e \in InstallSteps : CountOf(e) <= 1
    /\ pc \in InstallDriverPositions
          => \A outs \in CandidateOutcomes :
                Len(fallback_loop(program, FALSE, outs, 1, <<>>).tried)
                    <= Len(drivers)

MaxBuilds == 2

BuildCopies == {"test_vision", "testVision", "client_v1_prepare",
                "client_v1_install"}

\* What a successful git clone leaves, and what a make leaves when the
\* compiler produced the executable.
AfterClone(o) == o = "zero"
AfterMake(o, produced) == o = "zero" /\ produced

\* The compile part shared by the copies: chdir into the directory (which
\* raises when it is not there), make, and the test of the executable.
compile(dir, calls, make, produced) ==
    IF ~dir
    THEN [calls |-> calls, ok |-> FALSE, raised |-> TRUE,
          dir |-> dir, artifact |-> FALSE]
    ELSE [calls |-> Append(calls, "make"),
          ok |-> run_cmd(FALSE, make) /\ AfterMake(make, produced),
          raised |-> FALSE,
          dir |-> dir, artifact |-> AfterMake(make, produced)]

Untouched(dir, artifact, ok) ==
    [calls |-> <<>>, ok |-> ok, raised |-> FALSE,
     dir |-> dir, artifact |-> artifact]

install_gpu_burn_refetch(impl, dir, artifact, clone, make, produced) ==
    IF impl \in {"test_vision", "testVision"}
    THEN IF ~run_cmd(FALSE, clone)
         THEN [calls |-> <<"clone">>, ok |-> FALSE, raised |-> FALSE,
               dir |-> dir, artifact |-> artifact]
         ELSE compile(dir \/ AfterClone(clone), <<"clone">>, make, produced)
    ELSE IF impl = "client_v1_prepare"
    THEN [calls |-> <<"clone">>, ok |-> run_cmd(FALSE, clone),
          raised |-> FALSE, dir |-> dir \/ AfterClone(clone),
          artifact |-> artifact]
    ELSE IF ~dir THEN Untouched(dir, artifact, FALSE)
    ELSE compile(dir, <<>>, make, produced)

\* install_gpu_burn / prepare_gpu_burn: the commands one call runs, its
\* return value, and what is on disk afterwards.
install_gpu_burn(impl, dir, artifact, clone, make, produced) ==
    IF impl \in {"test_vision", "testVision"}
    THEN IF dir
         THEN IF artifact THEN Untouched(dir, artifact, TRUE)
              ELSE compile(dir, <<>>, make, produced)
         ELSE IF ~run_cmd(FALSE, clone)
              THEN [calls |-> <<"clone">>, ok |-> FALSE, raised |-> FALSE,
                    dir |-> dir, artifact |-> artifact]
              ELSE compile(AfterClone(clone), <<"clone">>, make, produced)
    ELSE IF impl = "client_v1_prepare"
    THEN IF dir THEN Untouched(dir, artifact, TRUE)
         ELSE [calls |-> <<"clone">>, ok |-> run_cmd(FALSE, clone),
               raised |-> FALSE, dir |-> AfterClone(clone),
               artifact |-> artifact]
    ELSE IF ~dir THEN Untouched(dir, artifact, FALSE)
    ELSE IF artifact THEN Untouched(dir, artifact, TRUE)
    ELSE compile(dir, <<>>, make, produced)

\* compute_capability handed to install_gpu_burn by main().
ComputeArgs == {"none", "8.9", "7.5"}

\* f'COMPUTE={compute_capability.replace(".", "")}' for the tiers of the
\* capability table.
COMPUTE(cc) ==
    CASE cc = "3.5" -> "COMPUTE=35"
      [] cc = "3.7" -> "COMPUTE=37"
      [] cc = "6.0" -> "COMPUTE=60"
      [] cc = "6.1" -> "COMPUTE=61"
      [] cc = "7.0" -> "COMPUTE=70"
      [] cc = "7.5" -> "COMPUTE=75"
      [] cc = "8.0" -> "COMPUTE=80"
      [] cc = "8.6" -> "COMPUTE=86"
      [] cc = "8.9" -> "COMPUTE=89"

\* make_cmd: ['make'] or ['make', f'COMPUTE={cc.replace(".", "")}'], when
\* the call gets as far as make.
make_cmd(calls, cc) ==
    IF \A k \in 1..Len(calls) : calls[k] # "make" THEN <<>>
    ELSE IF cc = "none" THEN <<"make">>
    ELSE <<"make", COMPUTE(cc)>>

InitBuild ==
    /\ SequencerIdle
    /\ rc = NoStudy /\ fb = NoStudy /\ tl = NoStudy /\ cl = NoStudy
    /\ ms = NoStudy /\ tb = NoStudy
    /\ pb = NoStudy
    /\ dp = NoStudy
    /\ \E impl \in BuildCopies, dir \in BOOLEAN, artifact \in BOOLEAN,
          cc \in ComputeArgs :
         /\ artifact => dir
         /\ impl \in {"client_v1_prepare", "client_v1_install"} => cc = "none"
         /\ bd = [on |-> TRUE, impl |-> impl, dir |-> dir,
                  artifact |-> artifact, cc |-> cc, hist |-> <<>>]

\* One call of the build function on what is on disk now.
BuildRun ==
    /\ bd.on /\ Len(bd.hist) < MaxBuilds
    /\ \E clone \in Outcomes, make \in Outcomes, produced \in BOOLEAN :
         LET r == install_gpu_burn(bd.impl, bd.dir, bd.artifact,
                                   clone, make, produced)
         IN  bd' = [bd EXCEPT
                      !.dir = r.dir,
                      !.artifact = r.artifact,
                      !.hist = Append(@, [dir |-> bd.dir,
                                          artifact |-> bd.artifact,
                                          calls |-> r.calls,
                                          make_cmd |-> make_cmd(r.calls, bd.cc),
                                          ok |-> r.ok,
                                          raised |-> r.raised])]
    /\ UNCHANGED <<sequencer, rc, fb, tl, cl, ms, tb, pb, dp>>

NextBuild == BuildRun

SpecBuild == InitBuild /\ [][NextBuild]_vars

\* C30: a build call that finds the source directory on disk does not run
\* the fetch, and one that finds the executable runs neither the fetch nor
\* the compile.
C30_IdempotentFetchAndBuild ==
    bd.on =>
        \A i \in 1..Len(bd.hist) :
            /\ bd.hist[i].dir
                  => ~\E k \in 1..Len(bd.hist[i].calls) :
                         bd.hist[i].calls[k] = "clone"
            /\ bd.hist[i].artifact => bd.hist[i].calls = <<>>

C30_Witness ==
    /\ bd.on /\ bd.impl = "test_vision" /\ Len(bd.hist) = 2
    /\ ~bd.hist[1].dir /\ bd.hist[1].calls = <<"clone", "make">>
    /\ bd.hist[1].ok
    /\ bd.hist[2].dir /\ bd.hist[2].artifact /\ bd.hist[2].calls = <<>>
    /\ bd.hist[2].ok


(***************************************************************************)
(* Study of the hardware probe                                             *)
(*                                                                         *)
(* check_gpu() of gpu_detect.py and SystemManager.check_gpu() of           *)
(* install_package.py and testVision.py are the same text.  The output of  *)
(* the listing command is kept as the sequence of its lines (the result of *)
(* output.split('\n')), each line a sequence of one-character strings.     *)
(***************************************************************************)

\* str.upper() on the characters that occur in listing lines.
upper_char(c) ==
    IF \E i \in 1..Len(LowerCase) : LowerCase[i] = c
    THEN UpperCase[CHOOSE i \in 1..Len(LowerCase) : LowerCase[i] = c]
    ELSE c

upper(str) == [i \in 1..Len(str) |-> upper_char(str[i])]

\* str.strip(): blanks are the only white space in a listing line.
RECURSIVE lstrip(_)
lstrip(str) ==
    IF str # <<>> /\ Head(str) = " " THEN lstrip(Tail(str)) ELSE str

RECURSIVE rstrip(_)
rstrip(str) ==
    IF str # <<>> /\ str[Len(str)] = " "
    THEN rstrip(SubSeq(str, 1, Len(str) - 1))
    ELSE str

strip(str) == rstrip(lstrip(str))

\* str.replace(old, ''): every occurrence of old, left to right, is dropped.
RECURSIVE remove_all(_, _)
remove_all(str, old) ==
    IF Len(str) < Len(old) THEN str
    ELSE IF SubSeq(str, 1, Len(old)) = old
    THEN remove_all(SubSeq(str, Len(old) + 1, Len(str)), old)
    ELSE <<Head(str)>> \o remove_all(Tail(str), old)

\* Positions of ':' in a line, and line.split(':', 2): three parts exist
\* when the line has two colons, and the third part is what follows the
\* second colon.
Colons(line) == {i \in 1..Len(line) : line[i] = ":"}

SecondColon(line) ==
    CHOOSE i \in Colons(line) : Cardinality({j \in Colons(line) : j < i}) = 1

split_2(line) ==
    IF Cardinality(Colons(line)) < 2 THEN [len |-> Cardinality(Colons(line)) + 1,
                                           third |-> <<>>]
    ELSE [len |-> 3,
          third |-> SubSeq(line, SecondColon(line) + 1, Len(line))]

NVIDIA == <<"N", "V", "I", "D", "I", "A">>
NVIDIA_Corporation ==
    <<"N", "V", "I", "D", "I", "A", " ", "C", "o", "r", "p", "o", "r", "a",
      "t", "i", "o", "n">>
Name_header == <<"N", "a", "m", "e">>

\* The name the loop body appends for one line that contains NVIDIA, or
\* nothing: [take |-> FALSE] when the line yields no name.
gpu_name_of(os, line) ==
    IF os = "linux" /\ Colons(line) # {}
    THEN IF split_2(line).len >= 3
         THEN [take |-> TRUE,
               name |-> strip(remove_all(strip(split_2(line).third),
                                         NVIDIA_Corporation))]
         ELSE [take |-> FALSE, name |-> <<>>]
    ELSE IF os = "windows"
    THEN IF strip(line) # <<>> /\ strip(line) # Name_header
         THEN [take |-> TRUE, name |-> strip(line)]
         ELSE [take |-> FALSE, name |-> <<>>]
    ELSE [take |-> FALSE, name |-> <<>>]

EmptyProbe == [has_gpu |-> FALSE, gpu_names |-> <<>>,
               compute_capabilities |-> <<>>]

\* A loop body that records a capability only for a name that is not empty.
RECURSIVE scan_lines_unpaired(_, _, _, _)
scan_lines_unpaired(os, output, i, result) ==
    IF i > Len(output) THEN result
    ELSE IF ~IsSubstring(NVIDIA, upper(output[i]))
    THEN scan_lines_unpaired(os, output, i + 1, result)
    ELSE LET g == gpu_name_of(os, output[i])
         IN  scan_lines_unpaired(os, output, i + 1,
               IF g.take
               THEN [has_gpu |-> TRUE,
                     gpu_names |-> Append(result.gpu_names, g.name),
                     compute_capabilities |->
                        IF g.name = <<>> THEN result.compute_capabilities
                        ELSE Append(result.compute_capabilities,
                                    get_compute_capability(g.name).cc)]
               ELSE [result EXCEPT !.has_gpu = TRUE])

\* for line in output.split('\n'): if 'NVIDIA' in line.upper(): ...
RECURSIVE scan_lines(_, _, _, _)
scan_lines(os, output, i, result) ==
    IF i > Len(output) THEN result
    ELSE IF ~IsSubstring(NVIDIA, upper(output[i]))
    THEN scan_lines(os, output, i + 1, result)
    ELSE LET g == gpu_name_of(os, output[i])
         IN  scan_lines(os, output, i + 1,
               IF g.take
               THEN [has_gpu |-> TRUE,
                     gpu_names |-> Append(result.gpu_names, g.name),
                     compute_capabilities |->
                        Append(result.compute_capabilities,
                               get_compute_capability(g.name).cc)]
               ELSE [result EXCEPT !.has_gpu = TRUE])

\* check_gpu(): the listing command is run with check=False; its output is
\* read only when run_cmd reports success.
check_gpu_output(os, o, output) ==
    IF run_cmd(FALSE, o) THEN scan_lines(os, output, 1, EmptyProbe)
    ELSE EmptyProbe

\* Pieces listing lines are put together from: what precedes the device
\* text (with two colons as lspci prints it, with one, with none) and the
\* device text.
lspci_prefix ==
    <<"0", "1", ":", "0", "0", ".", "0", " ", "V", "G", "A", ":", " ">>
short_prefix == <<"V", "G", "A", ":", " ">>
blank_prefix == <<" ", " ">>

RTX_4090_text ==
    <<"N", "V", "I", "D", "I", "A", " ", "C", "o", "r", "p", "o", "r", "a",
      "t", "i", "o", "n", " ", "R", "T", "X", " ", "4", "0", "9", "0", " ">>
A100_text == <<"n", "v", "i", "d", "i", "a", " ", "A", "1", "0", "0">>
Intel_text == <<"I", "n", "t", "e", "l", " ", "U", "H", "D">>

ListingLines == {
    lspci_prefix \o RTX_4090_text,
    lspci_prefix \o A100_text,
    lspci_prefix \o NVIDIA_Corporation,
    lspci_prefix \o Intel_text,
    short_prefix \o RTX_4090_text,
    blank_prefix \o A100_text
}

\* Bound on the number of lines in the output of the listing command.
MaxLines == 2

RECURSIVE OutputsOf(_)
OutputsOf(n) ==
    IF n = 0 THEN {<<>>}
    ELSE {Append(out, l) : out \in OutputsOf(n - 1), l \in ListingLines}

Outputs == UNION {OutputsOf(n) : n \in 0..MaxLines}

\* A dispatch that hands over the tier of the last device.
build_call_last(impl, info) ==
    IF info.has_gpu /\ info.compute_capabilities # <<>>
    THEN IF impl = "client_v1"
         THEN [called |-> FALSE, raised |-> TRUE, cc |-> "none"]
         ELSE [called |-> TRUE, raised |-> FALSE,
               cc |-> info.compute_capabilities[
                          Len(info.compute_capabilities)]]
    ELSE IF info.has_gpu
    THEN [called |-> TRUE, raised |-> FALSE, cc |-> "none"]
    ELSE [called |-> FALSE, raised |-> FALSE, cc |-> "none"]

\* The GPU Burn step of main() / run_linux_setup(): install_gpu_burn gets
\* compute_capabilities[0] as the keyword compute_capability when the list
\* is not empty, and no argument when only has_gpu holds.  install_gpu_burn
\* of linux_install.py has no such keyword, so that call raises TypeError.
build_call(impl, info) ==
    IF info.has_gpu /\ info.compute_capabilities # <<>>
    THEN IF impl = "client_v1"
         THEN [called |-> FALSE, raised |-> TRUE, cc |-> "none"]
         ELSE [called |-> TRUE, raised |-> FALSE,
               cc |-> info.compute_capabilities[1]]
    ELSE IF info.has_gpu
    THEN [called |-> TRUE, raised |-> FALSE, cc |-> "none"]
    ELSE [called |-> FALSE, raised |-> FALSE, cc |-> "none"]

NoBuildCall == [impl |-> "none", called |-> FALSE, raised |-> FALSE,
                cc |-> "none", make_cmd |-> <<>>]

\* The copies whose sequencer reaches the GPU Burn step.
BuildCallers == {"test_vision", "testVision", "client_v1"}

InitProbe ==
    /\ SequencerIdle
    /\ rc = NoStudy /\ fb = NoStudy /\ tl = NoStudy /\ cl = NoStudy
    /\ ms = NoStudy /\ tb = NoStudy /\ bd = NoStudy
    /\ dp = NoStudy
    /\ \E os \in {"linux", "windows"}, output \in Outputs :
         pb = [on |-> TRUE, os |-> os, output |-> output, phase |-> "listed",
               launch |-> "zero", result |-> EmptyProbe,
               build |-> NoBuildCall]

\* One call of check_gpu().
ProbeRun ==
    /\ pb.on /\ pb.phase = "listed"
    /\ \E o \in Outcomes :
         pb' = [pb EXCEPT !.phase = "probed", !.launch = o,
                          !.result = check_gpu_output(pb.os, o, pb.output)]
    /\ UNCHANGED <<sequencer, rc, fb, tl, cl, ms, tb, bd, dp>>

\* The GPU Burn step on the result of the probe.  The make command is put
\* together before make is run, so the outcome of make plays no part in it.
BuildCall ==
    /\ pb.on /\ pb.phase = "probed"
    /\ \E impl \in BuildCallers, dir \in BOOLEAN, artifact \in BOOLEAN,
          clone \in Outcomes :
         /\ artifact => dir
         /\ LET c == build_call(impl, pb.result)
                r == install_gpu_burn(
                         IF impl = "client_v1" THEN "client_v1_install"
                         ELSE impl,
                         dir, artifact, clone, "zero", TRUE)
            IN  pb' = [pb EXCEPT
                         !.phase = "built",
                         !.build = [impl |-> impl, called |-> c.called,
                                    raised |-> c.raised, cc |-> c.cc,
                                    make_cmd |-> IF c.called
                                                 THEN make_cmd(r.calls, c.cc)
                                                 ELSE <<>>]]
    /\ UNCHANGED <<sequencer, rc, fb, tl, cl, ms, tb, bd, dp>>

NextProbe == ProbeRun \/ BuildCall

SpecProbe == InitProbe /\ [][NextProbe]_vars

\* C37: in every result of check_gpu, a device name implies has_gpu, no
\* has_gpu implies that both lists are empty, and compute_capabilities is
\* as long as gpu_names with its i-th element the tier of the i-th name.
C37_ProbeShape ==
    (pb.on /\ pb.phase # "listed")
        => LET r == pb.result
           IN  /\ r.gpu_names # <<>> => r.has_gpu
               /\ ~r.has_gpu => (r.gpu_names = <<>>
                                 /\ r.compute_capabilities = <<>>)
               /\ Len(r.compute_capabilities) = Len(r.gpu_names)
               /\ \A i \in 1..Len(r.gpu_names) :
                     r.compute_capabilities[i] = ExpectedTier(r.gpu_names[i])

\* A listing with two devices, the second of which has an empty name after
\* the vendor text is removed, has been probed.
C37_Witness ==
    /\ pb.on /\ pb.phase # "listed" /\ pb.os = "linux"
    /\ pb.result.has_gpu
    /\ Len(pb.result.gpu_names) = 2
    /\ pb.result.gpu_names[1] = RTX_4090
    /\ pb.result.gpu_names[2] = <<>>
    /\ pb.result.compute_capabilities = <<"8.9", DefaultTier>>

\* C31: whenever the build step compiles, the make command carries the tier
\* of the first device name of the probe, and it is the bare make exactly
\* when the probe found a device and classified none.
C31_BuildParameterized ==
    (pb.on /\ pb.phase = "built" /\ pb.build.make_cmd # <<>>)
        => /\ pb.build.make_cmd = <<"make">>
                 <=> (pb.result.has_gpu
                      /\ pb.result.compute_capabilities = <<>>)
           /\ pb.build.make_cmd # <<"make">>
                 => pb.build.make_cmd =
                       <<"make", COMPUTE(ExpectedTier(pb.result.gpu_names[1]))>>

\* A listing with an RTX 4090 before an A100 has been built for 8.9.
C31_Witness ==
    /\ pb.on /\ pb.phase = "built" /\ pb.build.impl = "test_vision"
    /\ pb.result.gpu_names = <<RTX_4090, A100_text>>
    /\ pb.result.compute_capabilities = <<"8.9", "8.0">>
    /\ pb.build.make_cmd = <<"make", "COMPUTE=89">>


\* Whether the executable is on disk when the i-th build call returns.
ArtifactAfter(i) ==
    IF i < Len(bd.hist) THEN bd.hist[i + 1].artifact ELSE bd.artifact

\* C32: every call of the build step returns a result, and the result is
\* success exactly when the executable exists at that moment; in particular
\* a fetch or a compile that failed gives the result failure.
C32_BuildPostcondition ==
    (bd.on /\ bd.impl # "client_v1_prepare")
        => \A i \in 1..Len(bd.hist) :
              /\ ~bd.hist[i].raised
              /\ bd.hist[i].ok <=> ArtifactAfter(i)


\* Position of the toolkit probe of this run in the log, 0 when there was
\* none.
FirstToolkitProbe ==
    IF Has("probe_toolkit_yes") THEN First("probe_toolkit_yes")
    ELSE IF Has("probe_toolkit_no") THEN First("probe_toolkit_no")
    ELSE 0

\* C33: in a run that found the marker at start-up, the Python packages are
\* installed only after the toolkit has been probed.
C33_ProbeBeforePackages ==
    (is_auto_continue /\ Has("py_packages"))
        => (FirstToolkitProbe # 0 /\ FirstToolkitProbe < First("py_packages"))


\* C34: a run that has ended has ended in Complete, in Failed or at the
\* reboot; none has ended by an error that nothing handles.
C34_NoRunAborts ==
    Ended => outcome \in {"Complete", "Failed", "Reboot"}


\* C35: a create call that returned False on a store in which the start-up
\* check found no marker leaves a store in which it still finds none,
\* whichever sub-step failed.
C35_FailedCreateLeavesNothing ==
    (ms.on /\ ms.made.called /\ ~ms.made.ok
       /\ ~exists(ms.impl, ms.os, ms.made.before))
        => ~exists(ms.impl, ms.os, ms.made.after)


\* The step in which a Linux relaunch script reaches its last line: the
\* program it started has ended, or it started something that is not the
\* sequencer.
HookScriptEnds ==
    /\ os_type = "linux" /\ pc = "done" /\ pc' = "idle"
    /\ \/ via_hook /\ outcome # "Reboot"
       \/ outcome = "Reboot" /\ HookArmed

\* C36: when the Linux relaunch script has run to its end, the relaunch
\* script file and the unit file are both gone, however the run it started
\* ended.
C36_HookScriptCleansUp ==
    [][HookScriptEnds => (~store'.script /\ ~store'.service)]_vars

\* A resumed run started by the hook ended Failed, the script went on to
\* its end, and both files are gone.
C36_Witness ==
    /\ os_type = "linux" /\ pc = "idle" /\ via_hook
    /\ outcome = "Failed"
    /\ ~store.script /\ ~store.service


(***************************************************************************)
(* Study of the package-manager dispatch of src/EN_vision/install_package.py *)
(***************************************************************************)

\* _detect_package_manager(): `<manager> --version` is run with check=True
\* inside a bare except, so only exit status zero selects the manager.
_detect_package_manager(os, apt, dnf, choco) ==
    IF os = "linux"
    THEN IF apt = "zero" THEN "apt-get"
         ELSE IF dnf = "zero" THEN "dnf"
         ELSE "none"
    ELSE IF os = "windows"
    THEN IF choco = "zero" THEN "choco" ELSE "none"
    ELSE "none"

\* SystemManager.run_cmd of this copy: subprocess.check_call, with only
\* CalledProcessError caught.
check_call(o) ==
    [ok |-> o = "zero", raised |-> o = "nolaunch"]

\* update_system(): the command it issues, if any, and its result.
update_system(pm, o) ==
    IF pm = "apt"
    THEN [calls |-> <<<<"apt-get", "update">>>>, ok |-> check_call(o).ok,
          raised |-> check_call(o).raised, known |-> TRUE]
    ELSE IF pm \in {"dnf", "yum"}
    THEN [calls |-> <<>>, ok |-> TRUE, raised |-> FALSE, known |-> TRUE]
    ELSE IF pm = "choco"
    THEN [calls |-> <<<<"choco", "upgrade">>>>, ok |-> check_call(o).ok,
          raised |-> check_call(o).raised, known |-> TRUE]
    ELSE [calls |-> <<>>, ok |-> FALSE, raised |-> FALSE, known |-> FALSE]

\* The command the loop body of install_system_tools issues for one tool.
install_cmd(pm, tool) ==
    IF pm = "apt" THEN <<<<"apt-get", "install", tool>>>>
    ELSE IF pm \in {"dnf", "yum"} THEN <<<<pm, "install", tool>>>>
    ELSE IF pm = "choco" THEN <<<<"choco", "install", tool>>>>
    ELSE <<>>

\* for tool in tools: ...; the result of each command is not looked at, and
\* a command that cannot be launched raises out of the loop.
RECURSIVE tools_loop(_, _, _, _, _)
tools_loop(pm, names, outs, i, calls) ==
    IF i > Len(names) THEN [calls |-> calls, ok |-> TRUE, raised |-> FALSE]
    ELSE LET cmd == install_cmd(pm, names[i])
         IN  IF cmd # <<>> /\ check_call(outs[i]).raised
             THEN [calls |-> calls \o cmd, ok |-> FALSE, raised |-> TRUE]
             ELSE tools_loop(pm, names, outs, i + 1, calls \o cmd)

\* install_system_tools(tools) of this copy.
EN_install_system_tools(pm, names, outs) ==
    IF pm = "none" THEN [calls |-> <<>>, ok |-> FALSE, raised |-> FALSE]
    ELSE tools_loop(pm, names, outs, 1, <<>>)

\* Bound on the number of tools requested.
MaxRequested == 2

RequestedTools == {"git", "g++", "curl"}

RECURSIVE ListsOver(_, _)
ListsOver(S, n) ==
    IF n = 0 THEN {<<>>}
    ELSE {Append(l, x) : l \in ListsOver(S, n - 1), x \in S}

Requests == UNION {ListsOver(RequestedTools, n) : n \in 0..MaxRequested}

NoResult == [calls |-> <<>>, ok |-> FALSE, raised |-> FALSE]

InitDispatch ==
    /\ SequencerIdle
    /\ rc = NoStudy /\ fb = NoStudy /\ tl = NoStudy /\ cl = NoStudy
    /\ ms = NoStudy /\ tb = NoStudy /\ bd = NoStudy /\ pb = NoStudy
    /\ \E os \in {"linux", "windows", "darwin"}, apt \in Outcomes,
          dnf \in Outcomes, choco \in Outcomes :
         dp = [on |-> TRUE, os |-> os, apt |-> apt, dnf |-> dnf,
               choco |-> choco, phase |-> "new", package_manager |-> "none",
               known |-> FALSE, tools |-> <<>>, installed |-> NoResult]

\* SystemManager(): the constructor runs the detection.
Construct ==
    /\ dp.on /\ dp.phase = "new"
    /\ dp' = [dp EXCEPT
                !.phase = "constructed",
                !.package_manager =
                    _detect_package_manager(dp.os, dp.apt, dp.dnf, dp.choco)]
    /\ UNCHANGED <<sequencer, rc, fb, tl, cl, ms, tb, bd, pb>>

\* main(): sys_mgr.update_system(), result unused.
UpdateSystem ==
    /\ dp.on /\ dp.phase = "constructed"
    /\ \E o \in Outcomes :
         LET r == update_system(dp.package_manager, o)
         IN  dp' = [dp EXCEPT
                      !.phase = IF r.raised THEN "raised" ELSE "updated",
                      !.known = r.known]
    /\ UNCHANGED <<sequencer, rc, fb, tl, cl, ms, tb, bd, pb>>

\* main(): sys_mgr.install_system_tools(...).
InstallSystemTools ==
    /\ dp.on /\ dp.phase = "updated"
    /\ \E req \in Requests :
         \E outs \in [1..Len(req) -> Outcomes] :
           LET r == EN_install_system_tools(dp.package_manager, req, outs)
           IN  dp' = [dp EXCEPT
                        !.phase = IF r.raised THEN "raised" ELSE "installed",
                        !.tools = req,
                        !.installed = r]
    /\ UNCHANGED <<sequencer, rc, fb, tl, cl, ms, tb, bd, pb>>

NextDispatch == Construct \/ UpdateSystem \/ InstallSystemTools

SpecDispatch == InitDispatch /\ [][NextDispatch]_vars

\* C38: whenever detection returned a manager, update_system dispatched on
\* it, and an install_system_tools that reported success has issued one
\* install command for each requested tool, in order.
C38_DispatchClosed ==
    (dp.on /\ dp.package_manager # "none")
        => /\ dp.phase \in {"updated", "installed"} => dp.known
           /\ (dp.phase = "installed" /\ dp.installed.ok)
                 => /\ Len(dp.installed.calls) = Len(dp.tools)
                    /\ \A i \in 1..Len(dp.tools) :
                          /\ dp.installed.calls[i][2] = "install"
                          /\ dp.installed.calls[i][3] = dp.tools[i]

\* install_nvidia_driver() and install_cuda() issue a package-manager
\* command only in the branch of a manager they know; with
\* package_manager None they fall through to their last return.
InstallCommandIssued ==
    /\ package_manager # "none"
    /\ Has("driver_install") \/ Has("toolkit_install")

\* C39: on a Linux machine without a supported package manager a run issues
\* no driver or toolkit install command, writes no resume marker, issues no
\* reboot and does not end Complete.
C39_UnsupportedPlatform ==
    (os_type = "linux" /\ installed_pm = "none" /\ pc # "start")
        => /\ ~InstallCommandIssued
           /\ ~Has("marker_ok") /\ ~Has("marker_fail")
           /\ ~Has("reboot")
           /\ outcome \notin {"Complete", "Reboot"}

====
